---- MODULE Spec2Model ----
(***************************************************************************)
(* Model of invoice_processor/core/data_extractor.py: parse_invoice_text   *)
(* as a state machine whose steps follow the control flow of the function  *)
(* (vendor resolution, length check, field extraction, item table loop,    *)
(* totals extraction, validation, confidence aggregation, status).        *)
(*                                                                         *)
(* Representation.                                                         *)
(*  - A string on which the code runs a character-level conversion         *)
(*    (float(), int(), str.replace, strptime) is a sequence of one-        *)
(*    character strings, and the conversion is computed on the characters. *)
(*  - The invoice text is the sequence of its lines (text.split('\n')),    *)
(*    every line a record of tokens.  A regular expression of the code is  *)
(*    modelled by the set of token lines it matches and the groups it      *)
(*    captures there.  The lines are such that no pattern matches across a *)
(*    line break.                                                          *)
(*  - A float that holds an amount is an integer number of thousandths;    *)
(*    the amount strings have at most three fractional digits, so products *)
(*    and sums are exact.  A confidence is an integer percentage, and      *)
(*    overall_confidence is the exact fraction [num, den].                 *)
(***************************************************************************)
EXTENDS Integers, Sequences, FiniteSets, TLC

VARIABLES
    text,               \* the input: the lines of the OCR text
    today,              \* local `today`: [day, tod], day 0 before it is set
    pc,                 \* position in parse_invoice_text
    confidence,         \* local `confidence` (percent)
    result,             \* the record under construction / returned
    start_line,         \* local `start_line`
    end_line,           \* local `end_line`
    i,                  \* index of the next line of the item loop
    validation_score,   \* local `validation_score`
    max_score,          \* local `max_score`
    log,                \* what app_logger has recorded (warnings, errors)
    calls,              \* the other calls of a session, or the calls of
                        \* save_to_database
    VENDOR_DATABASE,    \* the keys of the module-level dictionary
    database            \* the CSV file at DATABASE_PATH

vars == <<text, today, pc, confidence, result, start_line,
          end_line, i, validation_score, max_score, log,
          calls, VENDOR_DATABASE, database>>

\* what lies outside one call of parse_invoice_text, extract_line_items or
\* parse_decimal, none of which assigns it
OutsideTheCall == <<calls, VENDOR_DATABASE, database>>

-----------------------------------------------------------------------------
(* Characters and numeric strings *)

DigitChars == <<"0", "1", "2", "3", "4", "5", "6", "7", "8", "9">>

Digits == {DigitChars[n] : n \in 1..10}

DigitVal(c) == (CHOOSE n \in 1..10 : DigitChars[n] = c) - 1

RECURSIVE StrToNat(_)
\* int(s) for a string of digits
StrToNat(s) ==
    IF s = <<>> THEN 0
    ELSE 10 * StrToNat(SubSeq(s, 1, Len(s) - 1)) + DigitVal(s[Len(s)])

RECURSIVE Replace(_, _, _)
\* s.replace(old, new) for a one-character `old`; `new` is a string
Replace(s, old, new) ==
    IF s = <<>> THEN <<>>
    ELSE (IF Head(s) = old THEN new ELSE <<Head(s)>>) \o Replace(Tail(s), old, new)

Count(s, c) == Cardinality({n \in 1..Len(s) : s[n] = c})

\* index of the first occurrence of c in s, 0 when there is none
IndexOf(s, c) ==
    IF \E n \in 1..Len(s) : s[n] = c
    THEN CHOOSE n \in 1..Len(s) : s[n] = c /\ \A m \in 1..(n - 1) : s[m] # c
    ELSE 0

\* the length of the longest prefix of s whose characters are all in set
PrefixIn(s, set) ==
    CHOOSE n \in 0..Len(s) :
        /\ \A m \in 1..n : s[m] \in set
        /\ (n < Len(s) => s[n + 1] \notin set)

\* float(s) succeeds: s is digits with at most one '.', and has a digit
FloatOK(s) ==
    /\ \A n \in 1..Len(s) : s[n] \in Digits \cup {"."}
    /\ Count(s, ".") <= 1
    /\ \E n \in 1..Len(s) : s[n] \in Digits

\* the fractional digits of a float string, as thousandths
FracMilli(f) ==
    CASE Len(f) = 0 -> 0
      [] Len(f) = 1 -> 100 * StrToNat(f)
      [] Len(f) = 2 -> 10 * StrToNat(f)
      [] OTHER      -> StrToNat(SubSeq(f, 1, 3))

\* float(s) for a string that FloatOK accepts, in thousandths
FloatMilli(s) ==
    LET dot == IndexOf(s, ".")
    IN  IF dot = 0 THEN 1000 * StrToNat(s)
        ELSE 1000 * StrToNat(SubSeq(s, 1, dot - 1))
             + FracMilli(SubSeq(s, dot + 1, Len(s)))

-----------------------------------------------------------------------------
(* Character classes of the regular expressions *)

Letters ==
    {"A", "B", "C", "D", "E", "F", "G", "H", "I", "J", "K", "L", "M", "N", "O",
     "P", "Q", "R", "S", "T", "U", "V", "W", "X", "Y", "Z", "a", "b", "c", "d",
     "e", "f", "g", "h", "i", "j", "k", "l", "m", "n", "o", "p", "q", "r", "s",
     "t", "u", "v", "w", "x", "y", "z"}

\* [A-Za-z0-9\s\-\(\)]
DescClass == Letters \cup Digits \cup {" ", "-", "(", ")"}

\* [A-Za-z0-9\s\-\(\)/&]
DescClassWide == DescClass \cup {"/", "&"}

\* [\d.,]
NumClass == Digits \cup {".", ","}

\* the currency glyphs [€$]? lets through; a line may also carry "£"
PatternGlyphs == {"", "$", "€"}

Spaces(n) == IF n <= 0 THEN <<>> ELSE [m \in 1..n |-> " "]

\* the length of the longest suffix of s whose characters are all in set
SuffixIn(s, set) ==
    CHOOSE n \in 0..Len(s) :
        /\ \A m \in (Len(s) - n + 1)..Len(s) : s[m] \in set
        /\ (n < Len(s) => s[Len(s) - n] \notin set)

RECURSIVE LStrip(_)
LStrip(s) == IF s # <<>> /\ Head(s) = " " THEN LStrip(Tail(s)) ELSE s

RECURSIVE RStrip(_)
RStrip(s) ==
    IF s # <<>> /\ s[Len(s)] = " " THEN RStrip(SubSeq(s, 1, Len(s) - 1)) ELSE s

\* str.strip()
Strip(s) == RStrip(LStrip(s))

-----------------------------------------------------------------------------
(* Lines of text.  A line is one of                                        *)
(*   [k: "blank"]                                  an empty line           *)
(*   [k: "junk", s]                                text no pattern matches *)
(*   [k: "field", label, val]                      "<label>: <val>"        *)
(*   [k: "date", label, d]                         "<label>: <date>"       *)
(*   [k: "amount", label, glyph, amt]              "<label>: <glyph><amt>" *)
(*   [k: "header"]                                 "Item Qty Price Total"  *)
(*   [k: "item", desc, sepw, glyph, qty, price, total]                     *)
(*        "<desc><sepw spaces><qty><sepw spaces><glyph><price>..."         *)
(* A date is [form, a, s1, b, s2, y, mon]: "<a><s1><b><s2><y>" when form   *)
(* is "numeric" and "<a> <mon> <y>" when it is "named".                    *)

NoMatch == [hit |-> FALSE]

Hit(v) == [hit |-> TRUE, val |-> v]

DateLen(d) ==
    IF d.form = "numeric" THEN Len(d.a) + 1 + Len(d.b) + 1 + Len(d.y)
    ELSE Len(d.a) + 1 + Len(d.mon) + 1 + Len(d.y)

\* len(line)
LineLen(line) ==
    CASE line.k = "blank"  -> 0
      [] line.k = "junk"   -> Len(line.s)
      [] line.k = "field"  -> Len(line.label) + 2 + Len(line.val)
      [] line.k = "date"   -> Len(line.label) + 2 + DateLen(line.d)
      [] line.k = "amount" -> Len(line.label) + 2 + Len(line.glyph) + Len(line.amt)
      [] line.k = "header" -> 20
      [] line.k = "item"   -> Len(line.desc) + 3 * line.sepw + Len(line.qty)
                              + 2 * Len(line.glyph) + Len(line.price) + Len(line.total)

RECURSIVE SumLen(_)
SumLen(lines) == IF lines = <<>> THEN 0 ELSE LineLen(Head(lines)) + SumLen(Tail(lines))

\* len(text): the lines and the line breaks between them
TextLen(lines) == IF lines = <<>> THEN 0 ELSE SumLen(lines) + Len(lines) - 1

-----------------------------------------------------------------------------
(* The field patterns (the dictionary `patterns`, tried over the text with *)
(* re.search and re.IGNORECASE).  Each operator gives the capture of one   *)
(* pattern on one line.                                                    *)

\* Invoice\s*(?:#|No|Number|num)[:.\s]*\s*([A-Za-z0-9-]+)
InvoiceNoPattern1(line) ==
    IF line.k = "field" /\ line.label \in {"Invoice No", "Invoice #", "Invoice Number"}
    THEN Hit(line.val) ELSE NoMatch

\* Invoice\s*ID[:.\s]*\s*([A-Za-z0-9-]+)
InvoiceNoPattern2(line) ==
    IF line.k = "field" /\ line.label = "Invoice ID" THEN Hit(line.val) ELSE NoMatch

\* (?:Invoice\s*)?Date[:.\s]*\s*(\d{1,2}[\/\.-]\d{1,2}[\/\.-]\d{2,4})
\* "Date" is also the end of the label "Due Date"
DatePattern1(line) ==
    IF /\ line.k = "date"
       /\ line.label \in {"Date", "Invoice Date", "Due Date"}
       /\ line.d.form = "numeric"
    THEN Hit(line.d) ELSE NoMatch

\* (?:Invoice\s*)?Date[:.\s]*\s*(\d{1,2}\s+[A-Za-z]+\s+\d{2,4})
DatePattern2(line) ==
    IF /\ line.k = "date"
       /\ line.label \in {"Date", "Invoice Date", "Due Date"}
       /\ line.d.form = "named"
    THEN Hit(line.d) ELSE NoMatch

\* Due\s*Date[:.\s]*\s*(\d{1,2}[\/\.-]\d{1,2}[\/\.-]\d{2,4})
DueDatePattern1(line) ==
    IF line.k = "date" /\ line.label = "Due Date" /\ line.d.form = "numeric"
    THEN Hit(line.d) ELSE NoMatch

\* Payment\s*Due[:.\s]*\s*(\d{1,2}[\/\.-]\d{1,2}[\/\.-]\d{2,4})
DueDatePattern2(line) ==
    IF line.k = "date" /\ line.label = "Payment Due" /\ line.d.form = "numeric"
    THEN Hit(line.d) ELSE NoMatch

\* P\.?O\.?\s*(?:Number|No|#)?[:.\s]*\s*([A-Za-z0-9-]+)
PoNumberPattern1(line) ==
    IF line.k = "field" /\ line.label \in {"PO Number", "PO No", "P.O."}
    THEN Hit(line.val) ELSE NoMatch

\* Purchase\s*Order\s*(?:Number|No|#)?[:.\s]*\s*([A-Za-z0-9-]+)
PoNumberPattern2(line) ==
    IF line.k = "field" /\ line.label = "Purchase Order" THEN Hit(line.val) ELSE NoMatch

\* the labels (?:Total|Amount\s*Due|Balance\s*Due) ends: the label must stand
\* right before the separator, so "Total Amount" is not one of them, and
\* "Total" is also the end of "Subtotal"
TotalAmountLabels == {"Total", "Subtotal", "Grand Total", "Amount Due", "Balance Due"}

\* (\d+[,\d]*\.\d+) at the start of s: digits and commas up to the first
\* '.', which a digit must follow
CaptureDecimal(s) ==
    LET dot == IndexOf(s, ".")
    IN  IF /\ dot > 1
           /\ s[1] \in Digits
           /\ \A n \in 1..(dot - 1) : s[n] \in Digits \cup {","}
           /\ dot < Len(s)
           /\ s[dot + 1] \in Digits
        THEN Hit(SubSeq(s, 1, dot + PrefixIn(SubSeq(s, dot + 1, Len(s)), Digits)))
        ELSE NoMatch

\* (\d+[,\d]*) at the start of s
CaptureInteger(s) ==
    IF s # <<>> /\ s[1] \in Digits
    THEN Hit(SubSeq(s, 1, PrefixIn(s, Digits \cup {","})))
    ELSE NoMatch

\* what is left of an amount for the capture group after [:.\s]*\s*\$?\s*:
\* without a glyph between them, [:.\s]* also takes the dots that lead it
AfterSeparator(line) ==
    IF line.glyph = ""
    THEN SubSeq(line.amt, PrefixIn(line.amt, {"."}) + 1, Len(line.amt))
    ELSE line.amt

\* (?:Total|Amount\s*Due|Balance\s*Due)[:.\s]*\s*\$?\s*(\d+[,\d]*\.\d+)
TotalAmountPattern1(line) ==
    IF line.k = "amount" /\ line.label \in TotalAmountLabels /\ line.glyph \in {"", "$"}
    THEN CaptureDecimal(AfterSeparator(line)) ELSE NoMatch

\* (?:Total|Amount\s*Due|Balance\s*Due)[:.\s]*\s*\$?\s*(\d+[,\d]*)
TotalAmountPattern2(line) ==
    IF line.k = "amount" /\ line.label \in TotalAmountLabels /\ line.glyph \in {"", "$"}
    THEN CaptureInteger(AfterSeparator(line)) ELSE NoMatch

FieldNames == <<"invoice_no", "date", "due_date", "po_number", "total_amount">>

\* patterns[field][p] applied to one line
FieldPattern(field, p, line) ==
    CASE field = "invoice_no"   -> IF p = 1 THEN InvoiceNoPattern1(line) ELSE InvoiceNoPattern2(line)
      [] field = "date"         -> IF p = 1 THEN DatePattern1(line) ELSE DatePattern2(line)
      [] field = "due_date"     -> IF p = 1 THEN DueDatePattern1(line) ELSE DueDatePattern2(line)
      [] field = "po_number"    -> IF p = 1 THEN PoNumberPattern1(line) ELSE PoNumberPattern2(line)
      [] field = "total_amount" -> IF p = 1 THEN TotalAmountPattern1(line) ELSE TotalAmountPattern2(line)

\* re.search(pattern, text): the capture on the first line, in document
\* order, that the pattern matches
FieldSearch(field, p, lines) ==
    IF \E n \in 1..Len(lines) : FieldPattern(field, p, lines[n]).hit
    THEN FieldPattern(field, p,
             lines[CHOOSE n \in 1..Len(lines) :
                      /\ FieldPattern(field, p, lines[n]).hit
                      /\ \A m \in 1..(n - 1) : ~FieldPattern(field, p, lines[m]).hit])
    ELSE NoMatch

\* the field decided by whichever pattern matches earliest in the text, the
\* first pattern when both match on the same line
FieldMatch_EarliestInText(field, lines) ==
    LET at(p) == CHOOSE n \in 1..Len(lines) :
                    /\ FieldPattern(field, p, lines[n]).hit
                    /\ \A m \in 1..(n - 1) : ~FieldPattern(field, p, lines[m]).hit
    IN  IF ~FieldSearch(field, 1, lines).hit THEN FieldSearch(field, 2, lines)
        ELSE IF ~FieldSearch(field, 2, lines).hit THEN FieldSearch(field, 1, lines)
        ELSE IF at(2) < at(1) THEN FieldSearch(field, 2, lines)
        ELSE FieldSearch(field, 1, lines)

\* the loop over pattern_list with its break: the first pattern that matches
FieldMatch(field, lines) ==
    IF FieldSearch(field, 1, lines).hit THEN FieldSearch(field, 1, lines)
    ELSE FieldSearch(field, 2, lines)

-----------------------------------------------------------------------------
(* The item table: header, end marker and the cascade of line patterns *)

\* header_patterns, re.search with re.IGNORECASE on one line
HeaderMatch(line) == line.k = "header"

\* (Sub)?Total|Tax|Discount|Balance, re.search with re.IGNORECASE on one line
EndMarkerLabels ==
    {"Total", "Subtotal", "Sub-total", "Grand Total", "Total Amount", "Tax",
     "TAX", "Discount", "Balance Due"}

EndMarkerMatch(line) ==
    \/ line.k = "amount" /\ line.label \in EndMarkerLabels
    \/ line.k = "header"

\* for i, line in enumerate(lines): start_line = i + 1 for the first header
\* line, -1 if there is none.  start_line and end_line are 0-based like the
\* code's, so lines[n] of the code is lines[n + 1] here and the header at
\* position n of the sequence gives start_line = n.
FindStart(lines) ==
    IF \E n \in 1..Len(lines) : HeaderMatch(lines[n])
    THEN CHOOSE n \in 1..Len(lines) :
            /\ HeaderMatch(lines[n])
            /\ \A m \in 1..(n - 1) : ~HeaderMatch(lines[m])
    ELSE -1

\* for i in range(start_line + 1, len(lines)): the first end marker, else
\* min(start_line + 15, len(lines))
TableCap == 15

\* the end of the table without the cap: the end of the text when no end
\* marker is found
FindEnd_NoCap(lines, start) ==
    LET marks == {n \in (start + 1)..(Len(lines) - 1) : EndMarkerMatch(lines[n + 1])}
    IN  IF marks # {} THEN CHOOSE n \in marks : \A m \in marks : n <= m
        ELSE Len(lines)

\* the end of the table searched from the top of the text: the first end
\* marker of the text, else the cap
FindEnd_FromTop(lines, start) ==
    LET marks == {n \in 0..(Len(lines) - 1) : EndMarkerMatch(lines[n + 1])}
    IN  IF marks # {} THEN CHOOSE n \in marks : \A m \in marks : n <= m
        ELSE IF start + TableCap <= Len(lines) THEN start + TableCap ELSE Len(lines)

FindEnd(lines, start) ==
    LET marks == {n \in (start + 1)..(Len(lines) - 1) : EndMarkerMatch(lines[n + 1])}
    IN  IF marks # {} THEN CHOOSE n \in marks : \A m \in marks : n <= m
        ELSE IF start + TableCap <= Len(lines) THEN start + TableCap ELSE Len(lines)

NumberOfItemPatterns == 6

\* the part of the description column a pattern that re.search may start
\* anywhere takes for its first group ([A-Za-z0-9\s\-\(\)]+, greedy): the
\* longest run of class characters before the quantity, less the one
\* separator [\s\t]+ needs
GreedyDesc(line) ==
    LET run == SuffixIn(line.desc, DescClass)
    IN  SubSeq(line.desc, Len(line.desc) - run + 1, Len(line.desc))
        \o Spaces(line.sepw - 1)

\* the same with the lazy group and separators of two or more
LazyDesc(line) ==
    LET run == SuffixIn(line.desc, DescClass)
    IN  IF run > 0 THEN SubSeq(line.desc, Len(line.desc) - run + 1, Len(line.desc))
        ELSE IF line.sepw >= 3 THEN <<" ">> ELSE <<>>

Groups(g1, line) == Hit(<<g1, line.qty, line.price, line.total>>)

AllIn(s, set) == \A n \in 1..Len(s) : s[n] \in set

\* patterns[p] of the item loop, re.search on the stripped line
ItemPattern(p, line) ==
    IF line.k # "item" THEN NoMatch
    ELSE CASE p = 1 ->
                \* ([A-Za-z0-9\s\-\(\)]+)[\s\t]+(\d+)[\s\t]+[€$]?([\d.,]+)[\s\t]+[€$]?([\d.,]+)
                IF line.glyph \in PatternGlyphs /\ GreedyDesc(line) # <<>>
                THEN Groups(GreedyDesc(line), line) ELSE NoMatch
           [] p = 2 ->
                \* the same with a mandatory € before both prices
                IF line.glyph = "€" /\ GreedyDesc(line) # <<>>
                THEN Groups(GreedyDesc(line), line) ELSE NoMatch
           [] p = 3 ->
                \* ([A-Za-z0-9\s\-\(\)]+?)[\s\t]{2,}(\d+)[\s\t]{2,}[€$]?([\d.,]+)[\s\t]{2,}[€$]?([\d.,]+)
                IF line.glyph \in PatternGlyphs /\ line.sepw >= 2 /\ LazyDesc(line) # <<>>
                THEN Groups(LazyDesc(line), line) ELSE NoMatch
           [] p = 4 ->
                \* ^([A-Za-z0-9\s\-\(\)/&]+?)[\s\t]{1,}(\d+)[\s\t]{1,}[€$]?([\d.,]+)[\s\t]{1,}[€$]?([\d.,]+)$
                IF line.glyph \in PatternGlyphs /\ AllIn(line.desc, DescClassWide)
                THEN Groups(line.desc, line) ELSE NoMatch
           [] p = 5 ->
                \* ^([A-Za-z0-9\s\-\(\)/&]+)\s+(\d+)\s+[€$]?([\d.,]+)\s+[€$]?([\d.,]+)$
                IF line.glyph \in PatternGlyphs /\ AllIn(line.desc, DescClassWide)
                THEN Groups(line.desc \o Spaces(line.sepw - 1), line) ELSE NoMatch
           [] p = 6 ->
                \* ^(.*?)\s{2,}(\d+)\s{2,}[€$]?([\d.,]+)\s{2,}[€$]?([\d.,]+)$
                IF line.glyph \in PatternGlyphs /\ line.sepw >= 2
                THEN Groups(line.desc, line) ELSE NoMatch

\* the cascade read from its end: the last pattern that matches, 0 when
\* none does
LastItemPattern(line) ==
    IF \E p \in 1..NumberOfItemPatterns : ItemPattern(p, line).hit
    THEN CHOOSE p \in 1..NumberOfItemPatterns :
            /\ ItemPattern(p, line).hit
            /\ \A q \in (p + 1)..NumberOfItemPatterns : ~ItemPattern(q, line).hit
    ELSE 0

\* for pattern in patterns: ... if match: the first pattern that matches,
\* 0 when none does
FirstItemPattern(line) ==
    IF \E p \in 1..NumberOfItemPatterns : ItemPattern(p, line).hit
    THEN CHOOSE p \in 1..NumberOfItemPatterns :
            /\ ItemPattern(p, line).hit
            /\ \A q \in 1..(p - 1) : ~ItemPattern(q, line).hit
    ELSE 0

\* float(price.replace(',', '.')) raises ValueError
PriceRaises(s) == ~FloatOK(Replace(s, ",", <<".">>))

\* float(price.replace(',', '.'))
PriceValue(s) == FloatMilli(Replace(s, ",", <<".">>))

\* the dictionary new_item is built without an exception
ItemConverts(groups) == ~PriceRaises(groups[3]) /\ ~PriceRaises(groups[4])

\* new_item
NewItem(groups) ==
    [description |-> Strip(groups[1]),
     quantity    |-> StrToNat(groups[2]),
     unit_price  |-> PriceValue(groups[3]),
     total       |-> PriceValue(groups[4])]

-----------------------------------------------------------------------------
(* The totals patterns (total_section_patterns, re.search over the text    *)
(* with re.IGNORECASE)                                                     *)

TotalsNames == <<"subtotal", "tax", "shipping", "discount", "total">>

\* the labels each pattern ends, only when they are whole words: "Total" is
\* not taken for the end of "Subtotal"
TotalsLabels_WholeWord(field) ==
    CASE field = "subtotal" -> {"Subtotal", "Sub-total", "Sub total"}
      [] field = "tax"      -> {"Tax", "TAX", "VAT", "GST"}
      [] field = "shipping" -> {"Shipping", "Freight", "Delivery"}
      [] field = "discount" -> {"Discount"}
      [] field = "total"    -> {"Total", "Grand Total", "Balance Due"}

\* the labels each pattern ends, in the cases the texts write them in
\* (re.IGNORECASE); "Total" is also the end of "Subtotal"
TotalsLabels(field) ==
    CASE field = "subtotal" -> {"Subtotal", "Sub-total", "Sub total"}
      [] field = "tax"      -> {"Tax", "TAX", "VAT", "GST"}
      [] field = "shipping" -> {"Shipping", "Freight", "Delivery"}
      [] field = "discount" -> {"Discount"}
      [] field = "total"    -> {"Total", "Subtotal", "Sub-total", "Sub total",
                                "Grand Total", "Balance Due"}

\* <label>[:.\s]*\s*\$?\s*([\d.,]+) on one line: the group takes the whole
\* amount, except the leading dots [:.\s]* has taken (all but the last one
\* when the amount is nothing but dots)
TotalsPattern(field, line) ==
    IF /\ line.k = "amount"
       /\ line.label \in TotalsLabels(field)
       /\ line.glyph \in {"", "$"}
       /\ line.amt # <<>>
    THEN IF AfterSeparator(line) = <<>> THEN Hit(<<".">>) ELSE Hit(AfterSeparator(line))
    ELSE NoMatch

\* re.search(pattern, text, re.IGNORECASE): the first line that matches
TotalsSearch(field, lines) ==
    IF \E n \in 1..Len(lines) : TotalsPattern(field, lines[n]).hit
    THEN TotalsPattern(field,
             lines[CHOOSE n \in 1..Len(lines) :
                      /\ TotalsPattern(field, lines[n]).hit
                      /\ \A m \in 1..(n - 1) : ~TotalsPattern(field, lines[m]).hit])
    ELSE NoMatch

\* float(match.group(1).replace(',', '')) raises ValueError
AmountRaises(s) == ~FloatOK(Replace(s, ",", <<>>))

\* float(match.group(1).replace(',', ''))
AmountValue(s) == FloatMilli(Replace(s, ",", <<>>))

-----------------------------------------------------------------------------
(* Dates: datetime.datetime.strptime and the proleptic Gregorian calendar *)

IsLeap(y) == (y % 4 = 0) /\ ((y % 100 # 0) \/ (y % 400 = 0))

DaysInMonth(y, m) ==
    CASE m \in {1, 3, 5, 7, 8, 10, 12} -> 31
      [] m \in {4, 6, 9, 11}           -> 30
      [] m = 2                         -> IF IsLeap(y) THEN 29 ELSE 28

RECURSIVE DaysBeforeMonth(_, _)
DaysBeforeMonth(y, m) ==
    IF m = 1 THEN 0 ELSE DaysBeforeMonth(y, m - 1) + DaysInMonth(y, m - 1)

\* date.toordinal(): the number of the day, 1 being 0001-01-01
Ordinal(y, m, d) ==
    365 * (y - 1) + ((y - 1) \div 4) - ((y - 1) \div 100) + ((y - 1) \div 400)
    + DaysBeforeMonth(y, m) + d

\* date_formats: which of the first two numbers is the month, and the
\* separator, of "%m/%d/%Y", "%d/%m/%Y", "%m-%d-%Y", "%d-%m-%Y", "%m.%d.%Y",
\* "%d.%m.%Y"
DateFormats ==
    <<[first |-> "m", sep |-> "/"], [first |-> "d", sep |-> "/"],
      [first |-> "m", sep |-> "-"], [first |-> "d", sep |-> "-"],
      [first |-> "m", sep |-> "."], [first |-> "d", sep |-> "."]>>

\* datetime.datetime.strptime(date_str, fmt) does not raise ValueError: both
\* separators are the format's, %m is one or two digits giving 1..12, %d one
\* or two digits giving a day of that month, %Y exactly four digits giving a
\* year from 1 on, and nothing is left over
StrptimeOK(d, fmt) ==
    /\ d.form = "numeric"
    /\ d.s1 = fmt.sep /\ d.s2 = fmt.sep
    /\ Len(d.a) \in 1..2 /\ Len(d.b) \in 1..2 /\ Len(d.y) = 4
    /\ LET month == StrToNat(IF fmt.first = "m" THEN d.a ELSE d.b)
           day   == StrToNat(IF fmt.first = "m" THEN d.b ELSE d.a)
           year  == StrToNat(d.y)
       IN  /\ month \in 1..12
           /\ year >= 1
           /\ day >= 1
           /\ day <= DaysInMonth(year, month)

\* the day strptime returns (its time of day is midnight)
StrptimeDay(d, fmt) ==
    Ordinal(StrToNat(d.y),
            StrToNat(IF fmt.first = "m" THEN d.a ELSE d.b),
            StrToNat(IF fmt.first = "m" THEN d.b ELSE d.a))

\* the loop over date_formats without its break: the last format that
\* parses, 0 when parsed_date stays None
LastFormat(d) ==
    IF \E f \in 1..Len(DateFormats) : StrptimeOK(d, DateFormats[f])
    THEN CHOOSE f \in 1..Len(DateFormats) :
            /\ StrptimeOK(d, DateFormats[f])
            /\ \A g \in (f + 1)..Len(DateFormats) : ~StrptimeOK(d, DateFormats[g])
    ELSE 0

\* for fmt in date_formats: try ... break: the first format that parses, 0
\* when parsed_date stays None
FirstFormat(d) ==
    IF \E f \in 1..Len(DateFormats) : StrptimeOK(d, DateFormats[f])
    THEN CHOOSE f \in 1..Len(DateFormats) :
            /\ StrptimeOK(d, DateFormats[f])
            /\ \A g \in 1..(f - 1) : ~StrptimeOK(d, DateFormats[g])
    ELSE 0

\* parsed_date <= today and parsed_date >= today - timedelta(days=365), for
\* parsed_date = midnight of `day` and today = clock = [day, tod], tod the
\* time since midnight (0 at midnight exactly)
DateInWindow(day, clock) ==
    /\ day <= clock.day
    /\ \/ day > clock.day - 365
       \/ day = clock.day - 365 /\ clock.tod = 0

-----------------------------------------------------------------------------
(* The record and its maps *)

EmptyMap == [x \in {} |-> 0]

\* d[k] = v
Put(d, k, v) == [x \in (DOMAIN d) \cup {k} |-> IF x = k THEN v ELSE d[x]]

\* a fraction num/den, den > 0
Frac(n, d) == [num |-> n, den |-> d]

\* q >= p / 100
FracGE(q, p) == q.num * 100 >= p * q.den

\* q <= p / 100
FracLE(q, p) == q.num * 100 <= p * q.den

\* config.ML_CONFIDENCE_THRESHOLD = 0.8, in percent
ML_CONFIDENCE_THRESHOLD == 80

\* the 0.6 of `elif overall_confidence >= 0.6`, in percent
ReviewThreshold == 60

\* the 50 of `len(text) < 50`
MinTextLen == 50

\* the 0.02 of `abs(items_total - invoice_total) <= 0.02`, in thousandths
Tolerance == 20

\* the value of the local `result` before the call has built it
NoResult ==
    [vendor     |-> [name |-> "", confidence |-> 0],
     metadata   |-> EmptyMap,
     items      |-> <<>>,
     totals     |-> EmptyMap,
     validation |-> [overall_confidence |-> Frac(0, 1),
                     warnings           |-> <<>>,
                     status             |-> "Pending Review"]]

\* a dictionary `result` that is not built anew: the one the last call
\* left, with the vendor of this call
NewResult_Reused(vendor, conf) ==
    [result EXCEPT !.vendor = [name |-> vendor, confidence |-> conf]]

\* the dictionary `result` as first built
NewResult(vendor, conf) ==
    [vendor     |-> [name |-> vendor, confidence |-> conf],
     metadata   |-> EmptyMap,
     items      |-> <<>>,
     totals     |-> EmptyMap,
     validation |-> [overall_confidence |-> Frac(0, 1),
                     warnings           |-> <<>>,
                     status             |-> "Pending Review"]]

\* result["validation"]["warnings"].append(w)
Warn(r, w) ==
    [r EXCEPT !.validation.warnings = Append(@, w)]

Warning(kind, detail) == [w |-> kind, detail |-> detail]

\* app_logger.warning / app_logger.error
Logged(level, kind) == [level |-> level, msg |-> kind]

-----------------------------------------------------------------------------
(* The inputs: texts built from a small alphabet of lines, the answers of  *)
(* the vendor resolver, and the wall clock                                 *)

\* the longest item table (lines after the header) of a text
MaxItemLines == 2

Blank == [k |-> "blank"]

Junk(s) == [k |-> "junk", s |-> s]

Field(label, val) == [k |-> "field", label |-> label, val |-> val]

NumericDate(a, s1, b, s2, y) ==
    [form |-> "numeric", a |-> a, s1 |-> s1, b |-> b, s2 |-> s2, y |-> y, mon |-> ""]

\* a date written "<day> <month name> <year>"
NamedDate(a, mon, y) ==
    [form |-> "named", a |-> a, s1 |-> " ", b |-> <<>>, s2 |-> " ", y |-> y, mon |-> mon]

DateLine(label, d) == [k |-> "date", label |-> label, d |-> d]

Amount(label, glyph, amt) ==
    [k |-> "amount", label |-> label, glyph |-> glyph, amt |-> amt]

Header == [k |-> "header"]

Item(desc, sepw, glyph, qty, price, total) ==
    [k |-> "item", desc |-> desc, sepw |-> sepw, glyph |-> glyph, qty |-> qty,
     price |-> price, total |-> total]

Y2024 == <<"2", "0", "2", "4">>

Dates ==
    {NumericDate(<<"0", "3">>, "/", <<"2", "9">>, "/", Y2024),      \* 03/29/2024
     NumericDate(<<"2", "9">>, "/", <<"0", "3">>, "/", Y2024),      \* 29/03/2024
     NumericDate(<<"1", "3">>, "/", <<"4", "5">>, "/", Y2024),      \* 13/45/2024
     NumericDate(<<"0", "6">>, "/", <<"1", "6">>, "/", <<"2", "0", "2", "3">>), \* 06/16/2023
     NumericDate(<<"1", "2">>, "/", <<"0", "1">>, "/", Y2024),      \* 12/01/2024
     NumericDate(<<"0", "3">>, "-", <<"2", "9">>, "-", <<"2", "0", "2", "0">>)} \* 03-29-2020

ItemLines ==
    {Item(<<"M", "o", "u", "s", "e">>, 1, "", <<"2">>,
          <<"2", "5", ".", "0", "0">>, <<"5", "0", ".", "0", "0">>),
     Item(<<"M", "o", "n", "i", "t", "o", "r">>, 1, "", <<"3">>,
          <<"3", "5", "0", ".", "0", "0">>, <<"1", ",", "0", "5", "0", ".", "0", "0">>),
     Item(<<"P", "e", "n">>, 1, "£", <<"2">>,
          <<"1", ".", "0", "0">>, <<"2", ".", "0", "0">>),
     Blank}

SeqsUpTo(S, n) == UNION {[1..m -> S] : m \in 0..n}

Preludes ==
    {<<>>, <<Junk("XYZ Traders Inc."), Junk("456 Trading Ave, Commerce City")>>}

InvoiceLines == {<<>>, <<Field("Invoice No", "INV123456")>>}

DateLines == {<<>>} \cup {<<DateLine("Date", d)>> : d \in Dates}

Tables == {<<>>} \cup {<<Header>> \o items : items \in SeqsUpTo(ItemLines, MaxItemLines)}

TotalsBlocks ==
    {<<>>,
     <<Amount("Total", "", <<"5", "0", ".", "0", "0">>)>>,
     <<Amount("Total", "$", <<"1", "0", "0", ".", "0", "2">>)>>,
     <<Amount("Subtotal", "", <<"5", "0", ".", "0", "3">>),
       Amount("Tax", "", <<"1", ".", "2", ".", "3">>),
       Amount("Total Amount", "", <<"5", "5", ".", "0", "0">>)>>}

\* the dates of the texts that have a table: 03/29/2024 and 13/45/2024
TableDateLines ==
    {<<>>} \cup {<<DateLine("Date", d)>> : d \in {e \in Dates : e.y = Y2024 /\ e.b = <<"2", "9">>}}
                 \cup {<<DateLine("Date", d)>> : d \in {e \in Dates : e.b = <<"4", "5">>}}

\* lines for the metadata fields: for each of invoice_no, date, po_number
\* and total_amount one line that only the field's second pattern matches
\* and lines its first pattern matches, one of them a date with a year of
\* two digits
FieldLines ==
    {Field("Invoice ID", "A1"),
     Field("Invoice No", "INV123456"),
     Field("Invoice No", "INV2"),
     DateLine("Date", NamedDate(<<"2", "9">>, "March", Y2024)),      \* 29 March 2024
     DateLine("Date", NumericDate(<<"0", "3">>, "/", <<"2", "9">>, "/", Y2024)),
     DateLine("Date", NumericDate(<<"0", "3">>, "/", <<"2", "9">>, "/", <<"2", "4">>)),
     Field("Purchase Order", "7788"),
     Field("PO Number", "4455"),
     Amount("Total", "", <<"5", "0">>),
     Amount("Total", "", <<"1", ",", "0", "5", "0", ".", "0", "0">>)}

\* the prelude and one or two of the field lines, in either order
FieldTexts ==
    {p \o <<a>> : p \in Preludes \ {<<>>}, a \in FieldLines}
    \cup {p \o <<a, b>> : p \in Preludes \ {<<>>}, a \in FieldLines, b \in FieldLines}

\* a text is a prelude, then the invoice number, the date, the table and the
\* totals block, each of them possibly missing; a text with a table has the
\* prelude and one of the dates of TableDateLines
BlockTexts ==
    {p \o n \o d \o t \o s :
        p \in Preludes, n \in InvoiceLines, d \in DateLines, t \in {<<>>},
        s \in TotalsBlocks}
    \cup
    {p \o n \o d \o t \o s :
        p \in Preludes \ {<<>>}, n \in InvoiceLines, d \in TableDateLines,
        t \in Tables \ {<<>>}, s \in TotalsBlocks}

\* the longest table of the texts, in lines after the header
MaxTableLines == 17

\* the item line of the long tables
MouseLine ==
    Item(<<"M", "o", "u", "s", "e">>, 1, "", <<"2">>,
         <<"2", "5", ".", "0", "0">>, <<"5", "0", ".", "0", "0">>)

\* the prelude, the header and a table of TableCap - 1 to MaxTableLines item
\* lines, with or without a total after it
LongTableTexts ==
    {p \o <<Header>> \o [n \in 1..k |-> MouseLine] \o s :
        p \in Preludes \ {<<>>}, k \in (TableCap - 1)..MaxTableLines,
        s \in {<<>>, <<Amount("Total", "", <<"5", "0", ".", "0", "0">>)>>}}

\* item lines with a quantity of 0, with decimal commas, and with a
\* description the first pattern takes only the end of
SpecialItemLines ==
    {MouseLine,
     Item(<<"A", "/", "B">>, 1, "", <<"2">>,
          <<"5", ".", "0", "0">>, <<"1", "0", ".", "0", "0">>),
     Item(<<"P", "a", "p", "e", "r">>, 1, "", <<"0">>,
          <<"2", "5", ".", "0", "0">>, <<"0", ".", "0", "0">>),
     Item(<<"I", "n", "k">>, 1, "", <<"1">>,
          <<"1", "2", ",", "5", "0">>, <<"1", "2", ",", "5", "0">>)}

\* the prelude, the header, one of these lines and no total, a total 0.02
\* above the one of MouseLine, or the total of the line with commas
SpecialItemTexts ==
    {p \o <<Header, a>> \o s :
        p \in Preludes \ {<<>>}, a \in SpecialItemLines,
        s \in {<<>>,
               <<Amount("Total", "", <<"5", "0", ".", "0", "2">>)>>,
               <<Amount("Total", "", <<"1", "2", ".", "5", "0">>)>>}}

\* the item lines of sample_invoice_text
SampleItems ==
    <<MouseLine,
      Item(<<"K", "e", "y", "b", "o", "a", "r", "d">>, 1, "", <<"1">>,
           <<"4", "5", ".", "0", "0">>, <<"4", "5", ".", "0", "0">>),
      Item(<<"M", "o", "n", "i", "t", "o", "r">>, 1, "", <<"3">>,
           <<"3", "5", "0", ".", "0", "0">>, <<"1", "0", "5", "0", ".", "0", "0">>)>>

\* tables for the sample: its own three lines, one line, none, and one line
\* whose description holds a '/'
SampleTables ==
    {SampleItems,
     <<MouseLine>>,
     <<>>,
     <<Item(<<"A", "/", "B">>, 1, "", <<"2">>,
            <<"5", ".", "0", "0">>, <<"1", "0", ".", "0", "0">>)>>}

\* sample_invoice_text of the tests (its lines without their indentation),
\* with one of the tables and the tax label in one of two cases
SampleText(items, tax) ==
    <<Blank, Junk("XYZ Traders Inc."), Junk("456 Trading Ave, Commerce City"),
      Blank, Junk("INVOICE"), Blank,
      Field("Invoice No", "INV123456"),
      DateLine("Date", NumericDate(<<"0", "3">>, "/", <<"2", "9">>, "/", Y2024)),
      DateLine("Due Date", NumericDate(<<"0", "4">>, "/", <<"2", "8">>, "/", Y2024)),
      Blank, Header, Blank>>
    \o items
    \o <<Blank,
         Amount("Subtotal", "", <<"1", "1", "4", "5", ".", "0", "0">>),
         Amount(tax, "", <<"5", "0", ".", "0", "0">>),
         Amount("Total Amount", "", <<"1", "1", "9", "5", ".", "0", "0">>),
         Blank, Junk("Payment Terms: Net 30"), Blank>>

SampleTexts == {SampleText(items, tax) : items \in SampleTables, tax \in {"Tax", "TAX"}}

Texts ==
    BlockTexts \cup FieldTexts \cup LongTableTexts \cup SpecialItemTexts
    \cup SampleTexts

\* the keys of VENDOR_DATABASE an answer names
VendorNames == {"XYZ Traders Inc."}

\* no other call
NoCalls == <<>>

\* no file at DATABASE_PATH
NoFile == [exists |-> FALSE, rows |-> <<>>]

\* vendor confidences, in percent: a probability, or a fuzzy score / 100.0
Confidences == {0, 80, 95, 100}

\* datetime.datetime.now(): 2024-06-15, at midnight or later in the day
Nows == {[day |-> Ordinal(2024, 6, 15), tod |-> t] : t \in {0, 1}}

Init ==
    /\ text \in Texts
    /\ today = [day |-> 0, tod |-> 0]
    /\ pc = "start"
    /\ confidence = 0
    /\ result = NoResult
    /\ start_line = -1
    /\ end_line = -1
    /\ i = 0
    /\ validation_score = 0
    /\ max_score = 0
    /\ log = <<>>
    /\ calls = NoCalls
    /\ VENDOR_DATABASE = VendorNames
    /\ database = NoFile

-----------------------------------------------------------------------------
(* parse_invoice_text, step by step *)

\* The argument vendor_classifier is a classifier whose prediction succeeds,
\* one whose prediction raises, or None: one action each, all three open at
\* the call.
\* vendor_classifier.predict(text[:500]) of a trained classifier: the
\* prediction and its probability
VendorPredict ==
    /\ pc = "start"
    /\ \E v \in VendorNames, c \in Confidences :
          /\ confidence' = c
          /\ result' = NewResult(v, c)
    /\ pc' = "check"
    /\ UNCHANGED <<OutsideTheCall, text, today, start_line, end_line, i,
                   validation_score, max_score, log>>

\* vendor_classifier.predict(text[:500]) when the prediction raises (the
\* vectorizer or the forest is not fitted): predict logs the error and
\* returns the answer of _fuzzy_match_vendor
VendorPredictFallback ==
    /\ pc = "start"
    /\ \E v \in VendorNames, c \in Confidences :
          /\ confidence' = c
          /\ result' = NewResult(v, c)
    /\ log' = Append(log, Logged("error", "Error in vendor prediction"))
    /\ pc' = "check"
    /\ UNCHANGED <<OutsideTheCall, text, today, start_line, end_line, i,
                   validation_score, max_score>>

\* no classifier: process.extractOne over the keys of VENDOR_DATABASE, its
\* score divided by 100.0
VendorFuzzy ==
    /\ pc = "start"
    /\ \E v \in VENDOR_DATABASE, c \in Confidences :
          /\ confidence' = c
          /\ result' = NewResult(v, c)
    /\ pc' = "check"
    /\ UNCHANGED <<OutsideTheCall, text, today, start_line, end_line, i,
                   validation_score, max_score, log>>

\* a length check that stops only the empty text: `if not text`, without the
\* comparison with 50
TooShort_OnlyEmpty(lines) == lines = <<>>

\* if not text or len(text) < 50
TooShort(lines) == TextLen(lines) < MinTextLen

\* the safety check for empty or very short text, and its return
ShortCircuit ==
    /\ pc = "check"
    /\ TooShort(text)
    /\ result' = [Warn(result, Warning("Insufficient text extracted from invoice", <<>>))
                    EXCEPT !.validation.status = "Manual Processing Required"]
    /\ pc' = "done"
    /\ UNCHANGED <<OutsideTheCall, text, today, confidence, start_line, end_line,
                   i, validation_score, max_score, log>>

\* the match of total_amount handed to float() as it was captured
TotalAmountCleaned_KeepsCommas(v) == v

\* value.replace(',', '') of a total_amount match
TotalAmountCleaned(v) == Replace(v, ",", <<>>)

\* the value stored for a field that matched: the group, and for
\* total_amount its float, 0.0 when float() raises ValueError
FieldValue(field, v) ==
    IF field = "total_amount"
    THEN IF FloatOK(TotalAmountCleaned(v)) THEN FloatMilli(TotalAmountCleaned(v)) ELSE 0
    ELSE v

FieldSet == {FieldNames[n] : n \in 1..Len(FieldNames)}

\* result["metadata"] after the loop over patterns.items()
ExtractedMetadata(lines) ==
    [f \in {g \in FieldSet : FieldMatch(g, lines).hit} |->
        FieldValue(f, FieldMatch(f, lines).val)]

\* the warnings of that loop
FieldWarnings(lines) ==
    LET m == FieldMatch("total_amount", lines)
    IN  IF m.hit /\ ~FloatOK(TotalAmountCleaned(m.val))
        THEN <<Warning("Could not convert total amount", TotalAmountCleaned(m.val))>>
        ELSE <<>>

\* the metadata loop, for a text that passed the length check
ExtractFields ==
    /\ pc = "check"
    /\ ~TooShort(text)
    /\ result' = [result EXCEPT
                    !.metadata = ExtractedMetadata(text),
                    !.validation.warnings = @ \o FieldWarnings(text)]
    /\ log' = log \o [n \in 1..Len(FieldWarnings(text)) |->
                        Logged("warning", FieldWarnings(text)[n].w)]
    /\ pc' = "table"
    /\ UNCHANGED <<OutsideTheCall, text, today, confidence, start_line, end_line,
                   i, validation_score, max_score>>

\* the search for the header and for the end of the table
LocateTable ==
    /\ pc = "table"
    /\ start_line' = FindStart(text)
    /\ end_line' = IF FindStart(text) >= 0 THEN FindEnd(text, FindStart(text)) ELSE -1
    /\ i' = IF FindStart(text) >= 0 THEN FindStart(text) ELSE i
    /\ pc' = IF FindStart(text) >= 0 /\ FindStart(text) < FindEnd(text, FindStart(text))
             THEN "items" ELSE "totals"
    /\ UNCHANGED <<OutsideTheCall, text, today, confidence, result,
                   validation_score, max_score, log>>

\* lines[i]
CurrentLine == text[i + 1]

\* where the item loop goes after line i
AfterLine == IF i + 1 < end_line THEN "items" ELSE "totals"

\* if not line: continue
ItemBlank ==
    /\ pc = "items"
    /\ CurrentLine.k = "blank"
    /\ i' = i + 1
    /\ pc' = AfterLine
    /\ UNCHANGED <<OutsideTheCall, text, today, confidence, result, start_line,
                   end_line, validation_score, max_score, log>>

\* a pattern matches and the item converts: result["items"].append(new_item)
ItemAppend ==
    /\ pc = "items"
    /\ CurrentLine.k # "blank"
    /\ FirstItemPattern(CurrentLine) > 0
    /\ LET groups == ItemPattern(FirstItemPattern(CurrentLine), CurrentLine).val
       IN  /\ ItemConverts(groups)
           /\ result' = [result EXCEPT !.items = Append(@, NewItem(groups))]
    /\ i' = i + 1
    /\ pc' = AfterLine
    /\ UNCHANGED <<OutsideTheCall, text, today, confidence, start_line, end_line,
                   validation_score, max_score, log>>

\* no pattern matches: the line is logged and left out
ItemUnmatched ==
    /\ pc = "items"
    /\ CurrentLine.k # "blank"
    /\ FirstItemPattern(CurrentLine) = 0
    /\ log' = Append(log, Logged("warning", "Could not extract item from line"))
    /\ i' = i + 1
    /\ pc' = AfterLine
    /\ UNCHANGED <<OutsideTheCall, text, today, confidence, result, start_line,
                   end_line, validation_score, max_score>>

\* the same exception with no handler around the item section: it leaves
\* parse_invoice_text
ItemRaisesPropagates == "raised"

\* where control goes when float() raises ValueError while new_item is
\* built: no handler in the loop, so to `except Exception as e` of the try
\* that holds the item section and the totals section
ItemRaisesTarget == "validate"

\* a pattern matches and float() raises ValueError
ItemRaises ==
    /\ pc = "items"
    /\ CurrentLine.k # "blank"
    /\ FirstItemPattern(CurrentLine) > 0
    /\ ~ItemConverts(ItemPattern(FirstItemPattern(CurrentLine), CurrentLine).val)
    /\ log' = Append(log, Logged("error", "Error extracting items"))
    /\ result' = Warn(result, Warning("Error extracting items", i))
    /\ pc' = ItemRaisesTarget
    /\ UNCHANGED <<OutsideTheCall, text, today, confidence, start_line, end_line,
                   i, validation_score, max_score>>


TotalsSet == {TotalsNames[n] : n \in 1..Len(TotalsNames)}

\* result["totals"] after the loop over total_section_patterns.items(): the
\* fields whose pattern matches and whose group float() accepts
ExtractedTotals(lines) ==
    [f \in {g \in TotalsSet : /\ TotalsSearch(g, lines).hit
                              /\ ~AmountRaises(TotalsSearch(g, lines).val)} |->
        AmountValue(TotalsSearch(f, lines).val)]

RECURSIVE TotalsWarningsFrom(_, _)
\* the warnings of that loop, in the order of the dictionary
TotalsWarningsFrom(n, lines) ==
    IF n > Len(TotalsNames) THEN <<>>
    ELSE LET m == TotalsSearch(TotalsNames[n], lines)
         IN  (IF m.hit /\ AmountRaises(m.val)
              THEN <<Warning("Could not convert", TotalsNames[n])>>
              ELSE <<>>) \o TotalsWarningsFrom(n + 1, lines)

TotalsWarnings(lines) == TotalsWarningsFrom(1, lines)

\* the totals section: reached when the item section ended without an
\* exception
ExtractTotals ==
    /\ pc = "totals"
    /\ result' = [result EXCEPT
                    !.totals = ExtractedTotals(text),
                    !.validation.warnings = @ \o TotalsWarnings(text)]
    /\ log' = log \o [n \in 1..Len(TotalsWarnings(text)) |->
                        Logged("warning", TotalsWarnings(text)[n].w)]
    /\ pc' = "validate"
    /\ UNCHANGED <<OutsideTheCall, text, today, confidence, start_line, end_line,
                   i, validation_score, max_score>>

essential_fields == {"invoice_no", "date", "total_amount"}

\* 1. one point for each essential field in result["metadata"]
EssentialPoints(metadata) == Cardinality(essential_fields \cap DOMAIN metadata)

CheckEssentialFields ==
    /\ pc = "validate"
    /\ validation_score' = EssentialPoints(result.metadata)
    /\ pc' = "crosscheck"
    /\ UNCHANGED <<OutsideTheCall, text, today, confidence, result, start_line,
                   end_line, i, max_score, log>>

RECURSIVE SumTotals(_)
\* sum(item["total"] for item in result["items"])
SumTotals(items) == IF items = <<>> THEN 0 ELSE Head(items).total + SumTotals(Tail(items))

Abs(x) == IF x < 0 THEN -x ELSE x

\* if result["items"] and "total" in result["totals"]
CrossCheckApplies(r) == r.items # <<>> /\ "total" \in DOMAIN r.totals

\* the pairs of amounts of the texts, in thousandths, that are 0.02 apart
\* as decimals and whose floats are found at most 0.02 apart: 100.02 - 100.0
\* is 0.01999999999999602 in binary floating point, while 50.02 - 50.0 is
\* 0.020000000000003126
RoundedWithin == {{100000, 100020}}

\* abs(x - y) <= 0.02 for the floats of two amounts given in thousandths: it
\* is the comparison of the decimals unless these are exactly 0.02 apart,
\* where the rounding of the operands decides
FloatWithinTolerance(x, y) ==
    IF Abs(x - y) = Tolerance THEN {x, y} \in RoundedWithin
    ELSE Abs(x - y) < Tolerance

\* abs(items_total - invoice_total) <= 0.02
TotalsAgree(items_total, invoice_total) ==
    FloatWithinTolerance(items_total, invoice_total)

\* 2. the items total against the invoice total
CrossCheck ==
    /\ pc = "crosscheck"
    /\ IF CrossCheckApplies(result)
       THEN LET items_total   == SumTotals(result.items)
                invoice_total == result.totals["total"]
            IN  IF TotalsAgree(items_total, invoice_total)
                THEN /\ validation_score' = validation_score + 1
                     /\ UNCHANGED <<result, log>>
                ELSE /\ result' = Warn(result,
                            Warning("Item total doesn't match invoice total",
                                    <<items_total, invoice_total>>))
                     /\ log' = Append(log, Logged("warning",
                                   "Validation: Items total doesn't match invoice total"))
                     /\ UNCHANGED validation_score
       ELSE UNCHANGED <<result, log, validation_score>>
    /\ pc' = "datecheck"
    /\ UNCHANGED <<OutsideTheCall, text, today, confidence, start_line, end_line,
                   i, max_score>>

\* the outcome of the date check for a date string: "valid", "unusual" or
\* "unparsed"
DateOutcome(d, clock) ==
    IF FirstFormat(d) = 0 THEN "unparsed"
    ELSE IF DateInWindow(StrptimeDay(d, DateFormats[FirstFormat(d)]), clock)
         THEN "valid" ELSE "unusual"

\* 3. the invoice date; datetime.datetime.now() is read when a format parsed
CheckDate ==
    /\ pc = "datecheck"
    /\ IF "date" \in DOMAIN result.metadata
       THEN LET date_str == result.metadata["date"]
            IN  IF FirstFormat(date_str) # 0
                THEN \E n \in Nows :
                       /\ today' = n
                       /\ IF DateOutcome(date_str, n) = "valid"
                          THEN /\ validation_score' = validation_score + 1
                               /\ UNCHANGED <<result, log>>
                          ELSE /\ result' = Warn(result,
                                      Warning("Invoice date seems unusual", date_str))
                               /\ log' = Append(log, Logged("warning",
                                             "Validation: Date seems unusual"))
                               /\ UNCHANGED validation_score
                ELSE /\ result' = Warn(result, Warning("Couldn't parse date", date_str))
                     /\ log' = Append(log, Logged("warning",
                                   "Validation: Couldn't parse date"))
                     /\ UNCHANGED <<validation_score, today>>
       ELSE UNCHANGED <<result, log, validation_score, today>>
    /\ pc' = "aggregate"
    /\ UNCHANGED <<OutsideTheCall, text, confidence, start_line, end_line, i, max_score>>

\* max_score = 3 + (1 if result["items"] else 0)
MaxScore(items) == 3 + (IF items # <<>> THEN 1 ELSE 0)

\* a confidence that leaves the vendor confidence out: validation_score /
\* max_score
OverallConfidence_ScoreOnly(score, max, conf) ==
    IF max > 0 THEN Frac(score, max) ELSE Frac(conf, 200)

\* (validation_score / max_score) * confidence, else confidence * 0.5
OverallConfidence(score, max, conf) ==
    IF max > 0 THEN Frac(score * conf, max * 100) ELSE Frac(conf, 200)

\* a status that looks at the confidence only and not at the warnings
StatusOf_IgnoresWarnings(overall_confidence, warnings) ==
    IF FracGE(overall_confidence, ML_CONFIDENCE_THRESHOLD)
    THEN "Auto-Approved"
    ELSE IF FracGE(overall_confidence, ReviewThreshold)
         THEN "Needs Review"
         ELSE "Manual Processing Required"

\* the status for a confidence and a warnings list
StatusOf(overall_confidence, warnings) ==
    IF FracGE(overall_confidence, ML_CONFIDENCE_THRESHOLD) /\ warnings = <<>>
    THEN "Auto-Approved"
    ELSE IF FracGE(overall_confidence, ReviewThreshold)
         THEN "Needs Review"
         ELSE "Manual Processing Required"

\* the overall confidence, the status, and the return
Aggregate ==
    /\ pc = "aggregate"
    /\ max_score' = MaxScore(result.items)
    /\ LET overall_confidence ==
              OverallConfidence(validation_score, MaxScore(result.items), confidence)
       IN  result' = [result EXCEPT
                        !.validation.overall_confidence = overall_confidence,
                        !.validation.status =
                            StatusOf(overall_confidence, result.validation.warnings)]
    /\ pc' = "done"
    /\ UNCHANGED <<OutsideTheCall, text, today, confidence, start_line, end_line,
                   i, validation_score, log>>

Next ==
    \/ VendorPredict
    \/ VendorPredictFallback
    \/ VendorFuzzy
    \/ ShortCircuit
    \/ ExtractFields
    \/ LocateTable
    \/ ItemBlank
    \/ ItemAppend
    \/ ItemUnmatched
    \/ ItemRaises
    \/ ExtractTotals
    \/ CheckEssentialFields
    \/ CrossCheck
    \/ CheckDate
    \/ Aggregate

Spec == Init /\ [][Next]_vars

-----------------------------------------------------------------------------
(* extract_line_items, step by step.  A call keeps its arguments lines,    *)
(* start_line and end_line in text, start_line and end_line, the index of  *)
(* its loop in i, its list items in result.items and what it logs in log.  *)

\* the number of item_patterns
NumberOfLineItemPatterns == 3

\* item_patterns[p], re.match on the stripped line: the patterns are the
\* last three of the cascade of parse_invoice_text
LineItemPattern(p, line) == ItemPattern(p + 3, line)

\* value.replace('€', '').replace('$', '').replace(' ', '').replace(',', '.')
Cleaned(value) ==
    Replace(Replace(Replace(Replace(value, "€", <<>>), "$", <<>>), " ", <<>>),
            ",", <<".">>)

\* parse_decimal(value): the float, in thousandths, or None (no hit) when
\* float() raises ValueError
parse_decimal(value) ==
    IF FloatOK(Cleaned(value)) THEN Hit(FloatMilli(Cleaned(value))) ELSE NoMatch

\* a matching pattern gives an item: both prices parse (int() of the
\* quantity group, which is \d+, does not raise)
PatternGivesItem(p, line) ==
    /\ LineItemPattern(p, line).hit
    /\ parse_decimal(LineItemPattern(p, line).val[3]).hit
    /\ parse_decimal(LineItemPattern(p, line).val[4]).hit

\* the pattern of the loop `for pattern in item_patterns` that reaches
\* items.append, 0 when none does
GivingPattern(line) ==
    IF \E p \in 1..NumberOfLineItemPatterns : PatternGivesItem(p, line)
    THEN CHOOSE p \in 1..NumberOfLineItemPatterns :
            /\ PatternGivesItem(p, line)
            /\ \A q \in 1..(p - 1) : ~PatternGivesItem(q, line)
    ELSE 0

\* the warnings parse_decimal logs for the two prices of one match
DecimalWarnings(groups) ==
    (IF parse_decimal(groups[3]).hit THEN <<>>
     ELSE <<Logged("warning", "Could not parse decimal value")>>)
    \o (IF parse_decimal(groups[4]).hit THEN <<>>
        ELSE <<Logged("warning", "Could not parse decimal value")>>)

RECURSIVE SkippedWarnings(_, _, _)
\* what patterns p..last log, each of them matching without giving an item
\* or not matching
SkippedWarnings(p, last, line) ==
    IF p > last THEN <<>>
    ELSE (IF LineItemPattern(p, line).hit
          THEN DecimalWarnings(LineItemPattern(p, line).val) ELSE <<>>)
         \o SkippedWarnings(p + 1, last, line)

\* round(quantity * unit_price, 2), in thousandths, for prices of at most
\* two decimals
CalculatedTotal(quantity, unit_price) == quantity * unit_price

\* abs(calculated_total - total_price) > 0.02
Discrepancy(calculated_total, total_price) ==
    ~FloatWithinTolerance(calculated_total, total_price)

\* new_item of extract_line_items
NewLineItem(groups) ==
    [description |-> Strip(groups[1]),
     quantity    |-> StrToNat(Strip(groups[2])),
     unit_price  |-> parse_decimal(groups[3]).val,
     total       |-> parse_decimal(groups[4]).val]

\* lines for extract_line_items: an item whose total is quantity * price, an
\* item 0.02 and an item 0.03 off it, one 0.02 off at another magnitude, one
\* with grouping commas, one with decimal commas, one with euro signs, one
\* with quantity 0, one with pound signs, and an empty line
LineItemLines ==
    {MouseLine,
     Item(<<"M", "o", "u", "s", "e">>, 1, "", <<"2">>,
          <<"2", "5", ".", "0", "0">>, <<"5", "0", ".", "0", "2">>),
     Item(<<"M", "o", "u", "s", "e">>, 1, "", <<"2">>,
          <<"2", "5", ".", "0", "0">>, <<"5", "0", ".", "0", "3">>),
     Item(<<"M", "o", "u", "s", "e">>, 1, "", <<"4">>,
          <<"2", "5", ".", "0", "0">>, <<"1", "0", "0", ".", "0", "2">>),
     Item(<<"M", "o", "n", "i", "t", "o", "r">>, 1, "", <<"3">>,
          <<"3", "5", "0", ".", "0", "0">>, <<"1", ",", "0", "5", "0", ".", "0", "0">>),
     Item(<<"I", "n", "k">>, 1, "", <<"1">>,
          <<"1", "2", ",", "5", "0">>, <<"1", "2", ",", "5", "0">>),
     Item(<<"I", "n", "k">>, 2, "€", <<"1">>,
          <<"1", "2", ".", "5", "0">>, <<"1", "2", ".", "5", "0">>),
     Item(<<"P", "a", "p", "e", "r">>, 1, "", <<"0">>,
          <<"2", "5", ".", "0", "0">>, <<"0", ".", "0", "0">>),
     Item(<<"P", "e", "n">>, 1, "£", <<"2">>,
          <<"1", ".", "0", "0">>, <<"2", ".", "0", "0">>),
     Blank}

\* a call extract_line_items(lines, start_line, end_line, app_logger) with
\* 0 <= start_line <= end_line <= len(lines)
InitItems ==
    /\ text \in SeqsUpTo(LineItemLines, MaxItemLines)
    /\ start_line \in 0..Len(text)
    /\ end_line \in start_line..Len(text)
    /\ i = start_line
    /\ pc = "extract_line_items"
    /\ result = [items |-> <<>>]
    /\ log = <<>>
    /\ today = [day |-> 0, tod |-> 0]
    /\ confidence = 0
    /\ validation_score = 0
    /\ max_score = 0
    /\ calls = NoCalls
    /\ VENDOR_DATABASE = VendorNames
    /\ database = NoFile

\* if not line: continue
LineItemBlank ==
    /\ pc = "extract_line_items"
    /\ i < end_line
    /\ CurrentLine.k = "blank"
    /\ i' = i + 1
    /\ UNCHANGED <<OutsideTheCall, text, today, pc, confidence, result, start_line, end_line,
                   validation_score, max_score, log>>

\* a pattern matches and both prices parse: the item is appended, after a
\* warning when the calculated total is off the given one
LineItemAppend ==
    /\ pc = "extract_line_items"
    /\ i < end_line
    /\ CurrentLine.k # "blank"
    /\ GivingPattern(CurrentLine) > 0
    /\ LET p        == GivingPattern(CurrentLine)
           new_item == NewLineItem(LineItemPattern(p, CurrentLine).val)
       IN  /\ result' = [result EXCEPT !.items = Append(@, new_item)]
           /\ log' = log \o SkippedWarnings(1, p - 1, CurrentLine)
                         \o (IF Discrepancy(CalculatedTotal(new_item.quantity,
                                                            new_item.unit_price),
                                            new_item.total)
                             THEN <<Logged("warning",
                                           "Possible price calculation discrepancy")>>
                             ELSE <<>>)
    /\ i' = i + 1
    /\ UNCHANGED <<OutsideTheCall, text, today, pc, confidence, start_line, end_line,
                   validation_score, max_score>>

\* no pattern gives an item: the line is left out and logged
LineItemSkip ==
    /\ pc = "extract_line_items"
    /\ i < end_line
    /\ CurrentLine.k # "blank"
    /\ GivingPattern(CurrentLine) = 0
    /\ log' = log \o SkippedWarnings(1, NumberOfLineItemPatterns, CurrentLine)
                  \o <<Logged("warning", "Could not extract item from line")>>
    /\ i' = i + 1
    /\ UNCHANGED <<OutsideTheCall, text, today, pc, confidence, result, start_line, end_line,
                   validation_score, max_score>>

\* the loop is over: return items
LineItemsReturn ==
    /\ pc = "extract_line_items"
    /\ i >= end_line
    /\ pc' = "returned"
    /\ UNCHANGED <<OutsideTheCall, text, today, confidence, result, start_line, end_line, i,
                   validation_score, max_score, log>>

NextItems ==
    \/ LineItemBlank
    \/ LineItemAppend
    \/ LineItemSkip
    \/ LineItemsReturn

SpecItems == InitItems /\ [][NextItems]_vars

\* a call of either function
InitBoth == Init \/ InitItems

NextBoth == Next \/ NextItems

SpecBoth == InitBoth /\ [][NextBoth]_vars

-----------------------------------------------------------------------------
(* parse_decimal, the helper of extract_line_items, called on its own: text *)
(* holds the one value it is given, result the string it cleans and the     *)
(* number or None it returns                                                *)

\* the most digits after the decimal separator of a value
MaxFractionDigits == 2

\* values for parse_decimal: an optional currency glyph, a whole part, '.'
\* or ',' as the decimal separator and a fraction
DecimalValues ==
    {[k |-> "decimal", glyph |-> g, whole |-> w, sep |-> s, frac |-> f] :
        g \in {<<>>, <<"$">>, <<"€">>, <<"£">>},
        w \in {<<"0">>, <<"1", "2">>, <<"1", "0", "5", "0">>},
        s \in {".", ","},
        f \in UNION {[1..m -> {"0", "5"}] : m \in 1..MaxFractionDigits}}

\* the string a value is written as
DecimalString(d) == d.glyph \o d.whole \o <<d.sep>> \o d.frac

\* the call parse_decimal(value)
InitDecimal ==
    /\ text \in {<<d>> : d \in DecimalValues}
    /\ pc = "parse_decimal"
    /\ result = [cleaned |-> <<>>]
    /\ log = <<>>
    /\ today = [day |-> 0, tod |-> 0]
    /\ confidence = 0
    /\ start_line = 0
    /\ end_line = 0
    /\ i = 0
    /\ validation_score = 0
    /\ max_score = 0
    /\ calls = NoCalls
    /\ VENDOR_DATABASE = VendorNames
    /\ database = NoFile

\* cleaned = value.replace(...)
DecimalClean ==
    /\ pc = "parse_decimal"
    /\ result' = [cleaned |-> Cleaned(DecimalString(text[1]))]
    /\ pc' = "float"
    /\ UNCHANGED <<OutsideTheCall, text, today, confidence, start_line, end_line, i,
                   validation_score, max_score, log>>

\* return float(cleaned)
DecimalReturn ==
    /\ pc = "float"
    /\ FloatOK(result.cleaned)
    /\ result' = [value |-> parse_decimal(DecimalString(text[1]))]
    /\ pc' = "returned"
    /\ UNCHANGED <<OutsideTheCall, text, today, confidence, start_line, end_line, i,
                   validation_score, max_score, log>>

\* except (ValueError, TypeError): the warning, return None
DecimalNone ==
    /\ pc = "float"
    /\ ~FloatOK(result.cleaned)
    /\ log' = Append(log, Logged("warning", "Could not parse decimal value"))
    /\ result' = [value |-> parse_decimal(DecimalString(text[1]))]
    /\ pc' = "returned"
    /\ UNCHANGED <<OutsideTheCall, text, today, confidence, start_line, end_line, i,
                   validation_score, max_score>>

NextDecimal ==
    \/ DecimalClean
    \/ DecimalReturn
    \/ DecimalNone

SpecDecimal == InitDecimal /\ [][NextDecimal]_vars

-----------------------------------------------------------------------------
(* A session of three calls of parse_invoice_text in one interpreter: the  *)
(* first runs alone, the other two run in threads that the interpreter     *)
(* switches between at any step.  The variables text .. max_score are the  *)
(* locals of the running call; calls keeps the texts of the calls not yet  *)
(* made, the locals of the suspended ones and what the finished ones       *)
(* returned.  log, VENDOR_DATABASE and database are the same for all calls. *)

\* the texts of a session: one with a date, a table and a total, one with a
\* total only, and one shorter than 50 characters
SessionTexts ==
    {<<Junk("XYZ Traders Inc."), Junk("456 Trading Ave, Commerce City"),
       Field("Invoice No", "INV123456"),
       DateLine("Date", NumericDate(<<"0", "3">>, "/", <<"2", "9">>, "/", Y2024)),
       Header, MouseLine, Amount("Total", "", <<"5", "0", ".", "0", "0">>)>>,
     <<Junk("XYZ Traders Inc."), Junk("456 Trading Ave, Commerce City"),
       Amount("Total", "", <<"5", "0">>)>>,
     <<Field("Invoice No", "INV123456")>>}

\* the confidences the vendor resolver answers with in a session
SessionConfidences == {0, 95}

\* the names parse_invoice_text assigns: all of them local to the call
Locals ==
    [text |-> text, today |-> today, pc |-> pc, confidence |-> confidence,
     result |-> result, start_line |-> start_line, end_line |-> end_line,
     i |-> i, validation_score |-> validation_score, max_score |-> max_score]

\* a call whose `result` is not its own: it resumes with the dictionary as
\* the call that ran meanwhile left it
Suspended_SharedResult(frame) == [frame EXCEPT !.result = result]

\* the locals a suspended call finds when it runs again: its own
Suspended(frame) == frame

\* what a finished call was given and what it returned
Outcome == [text |-> text, today |-> today, result |-> result]

\* the running call leaves the processor: it has returned, or it is
\* suspended with its locals
Leave ==
    IF pc = "done"
    THEN [calls EXCEPT !.returned = (calls.current :> Outcome) @@ @,
                       !.order = Append(@, calls.current)]
    ELSE [calls EXCEPT !.suspended = (calls.current :> Locals) @@ @,
                       !.overlap = TRUE]

Without(f, c) == [k \in DOMAIN f \ {c} |-> f[k]]

InitSession ==
    /\ \E t \in SessionTexts : \E u \in SessionTexts \ {t} :
          /\ text = t
          /\ calls = [current   |-> 1,
                      waiting   |-> (2 :> t) @@ (3 :> u),
                      suspended |-> <<>>,
                      returned  |-> <<>>,
                      order     |-> <<>>,
                      overlap   |-> FALSE]
    /\ today = [day |-> 0, tod |-> 0]
    /\ pc = "start"
    /\ confidence = 0
    /\ result = NoResult
    /\ start_line = -1
    /\ end_line = -1
    /\ i = 0
    /\ validation_score = 0
    /\ max_score = 0
    /\ log = <<>>
    /\ VENDOR_DATABASE = VendorNames
    /\ database = NoFile

\* a step of the running call
SessionParse ==
    /\ Next
    /\ pc = "start" => confidence' \in SessionConfidences

\* parse_invoice_text(text, vendor_classifier) is called: the first call has
\* returned, the running call has returned or is suspended.  The locals of
\* the new call hold nothing yet: here, what the last call left in them.
Call(c) ==
    /\ c \in DOMAIN calls.waiting
    /\ calls.current = 1 => pc = "done"
    /\ calls' = [Leave EXCEPT !.current = c, !.waiting = Without(@, c)]
    /\ text' = calls.waiting[c]
    /\ pc' = "start"
    /\ UNCHANGED <<today, confidence, result, start_line, end_line, i,
                   validation_score, max_score, log, VENDOR_DATABASE, database>>

\* the interpreter switches to a suspended call
Resume(c) ==
    /\ c \in DOMAIN calls.suspended
    /\ LET frame == Suspended(calls.suspended[c])
       IN  /\ text' = frame.text
           /\ today' = frame.today
           /\ pc' = frame.pc
           /\ confidence' = frame.confidence
           /\ result' = frame.result
           /\ start_line' = frame.start_line
           /\ end_line' = frame.end_line
           /\ i' = frame.i
           /\ validation_score' = frame.validation_score
           /\ max_score' = frame.max_score
    /\ calls' = [Leave EXCEPT !.current = c, !.suspended = Without(@, c)]
    /\ UNCHANGED <<log, VENDOR_DATABASE, database>>

NextSession ==
    \/ SessionParse
    \/ \E c \in 2..3 : Call(c)
    \/ \E c \in 2..3 : Resume(c)

SpecSession == InitSession /\ [][NextSession]_vars

-----------------------------------------------------------------------------
(* Properties *)

Returned == pc = "done"

\* the call returned after the length check let the text through
ReturnedLong == pc = "done" /\ TextLen(text) >= 50

Warnings == result.validation.warnings

WarningsOfKind(kind) == {n \in 1..Len(Warnings) : Warnings[n].w = kind}

HasLogged(kind) == \E n \in 1..Len(log) : log[n].msg = kind

PresentEssentials ==
    (IF "invoice_no" \in DOMAIN result.metadata THEN 1 ELSE 0)
    + (IF "date" \in DOMAIN result.metadata THEN 1 ELSE 0)
    + (IF "total_amount" \in DOMAIN result.metadata THEN 1 ELSE 0)

\* C1: on every return that is not the short-text return, the status is
\* Auto-Approved iff overall_confidence >= 0.8 and there is no warning, else
\* Needs Review iff overall_confidence >= 0.6, else Manual Processing
\* Required; and confidence 0.95 with score 3 of 3 and no warning gives
\* Auto-Approved.
C1_StatusFromConfidenceAndWarnings ==
    /\ ReturnedLong =>
          LET oc      == result.validation.overall_confidence
              atLeast80 == oc.num * 10 >= 8 * oc.den
              atLeast60 == oc.num * 10 >= 6 * oc.den
              status  == result.validation.status
          IN  /\ status = "Auto-Approved" <=> (atLeast80 /\ Warnings = <<>>)
              /\ status = "Needs Review" <=> (~(atLeast80 /\ Warnings = <<>>) /\ atLeast60)
              /\ status = "Manual Processing Required" <=> ~atLeast60
    /\ StatusOf(OverallConfidence(3, 3, 95), <<>>) = "Auto-Approved"

\* C1 witness: a return with overall_confidence >= 0.8 that a warning keeps
\* from Auto-Approved
C1_Witness ==
    /\ ReturnedLong
    /\ result.validation.overall_confidence.num * 10
          >= 8 * result.validation.overall_confidence.den
    /\ Warnings # <<>>
    /\ result.validation.status = "Needs Review"

\* C2: the overall_confidence of the returned record lies in [0, 1].
C2_ConfidenceInUnitInterval ==
    Returned =>
        /\ result.validation.overall_confidence.num >= 0
        /\ result.validation.overall_confidence.num
              <= result.validation.overall_confidence.den

\* C3: where overall_confidence is computed, validation_score is between 0
\* and 4 and does not exceed 3 + (1 if items is non-empty else 0).
C3_ScoreWithinMaxScore ==
    pc = "aggregate" =>
        /\ validation_score \in 0..4
        /\ validation_score <= 3 + (IF result.items # <<>> THEN 1 ELSE 0)

TopLevelFields == {"vendor", "metadata", "items", "totals", "validation"}

\* the call is at a statement of parse_invoice_text that has a next
\* statement: it has not left the function by an exception
InsideTheCall ==
    \/ pc \in {"start", "check", "table", "totals", "validate", "crosscheck",
               "datecheck", "aggregate"}
    \/ pc = "items" /\ i \in start_line..(end_line - 1) /\ i + 1 \in 1..Len(text)

\* the properties of C4 that hold whatever failed: the call goes on until it
\* returns, the record has exactly the five top-level fields, an exception of
\* the item section, a totals amount or a date that does not convert each left
\* a warning, and what was extracted before the failure is in the record
C4_Common ==
    /\ Returned \/ InsideTheCall
    /\ DOMAIN result = TopLevelFields
    /\ HasLogged("Error extracting items") =>
          WarningsOfKind("Error extracting items") # {}
    /\ Returned =>
          /\ result.validation.status \in
                {"Auto-Approved", "Needs Review", "Manual Processing Required"}
          /\ HasLogged("Could not convert") => WarningsOfKind("Could not convert") # {}
          /\ HasLogged("Validation: Couldn't parse date") =>
                WarningsOfKind("Couldn't parse date") # {}
    /\ ReturnedLong =>
          /\ result.metadata = ExtractedMetadata(text)
          /\ HasLogged("Error extracting items") =>
                Len(result.items) =
                    Cardinality({n \in start_line..(i - 1) :
                                    FirstItemPattern(text[n + 1]) > 0})

\* C4 as stated: also a failure of the vendor resolution is converted into a
\* warning.
C4_EveryFailureBecomesWarning ==
    /\ C4_Common
    /\ Returned /\ HasLogged("Error in vendor prediction") => Warnings # <<>>

\* C4 amended: the call never raises and returns a record with exactly the
\* five top-level fields and the partial results; a failure of the item
\* section, of a totals amount or of the date is converted into a warning,
\* while a failed prediction of the vendor classifier is answered by its
\* fuzzy-match fallback and may leave no warning.
C4_NeverRaises ==
    /\ C4_Common
    /\ pc = "check" /\ HasLogged("Error in vendor prediction") =>
          /\ Warnings = <<>>
          /\ result.vendor.name \in VendorNames

\* C4 witness: a return after an exception in the item section, with an item
\* collected before it
C4_Witness ==
    /\ ReturnedLong
    /\ WarningsOfKind("Error extracting items") # {}
    /\ result.items # <<>>
    /\ HasLogged("Error in vendor prediction")


\* C5: a text shorter than 50 characters skips extraction and validation and
\* returns at once: status Manual Processing Required, exactly one warning,
\* empty metadata, items and totals, overall_confidence below 0.5.
C5_ShortTextReturnsAtOnce ==
    TextLen(text) < 50 =>
        /\ pc \in {"start", "check", "done"}
        /\ Returned =>
              /\ result.validation.status = "Manual Processing Required"
              /\ Len(Warnings) = 1
              /\ Warnings[1].w = "Insufficient text extracted from invoice"
              /\ DOMAIN result.metadata = {}
              /\ result.items = <<>>
              /\ DOMAIN result.totals = {}
              /\ result.validation.overall_confidence.num * 2
                    < result.validation.overall_confidence.den
              /\ start_line = -1 /\ validation_score = 0

\* C5 witness: the return for a short text that is not empty
C5_Witness == Returned /\ TextLen(text) < 50 /\ TextLen(text) > 0

\* the lines of the item range were all gone through
ItemRangeProcessed == start_line >= 0 => i = end_line

\* C6: a table line whose price does not convert voids only its match; the
\* lines after it in [start, end) are still processed and the items
\* collected before it are kept.
C6_FailureVoidsOnlyTheMatch ==
    ReturnedLong =>
        /\ ItemRangeProcessed
        /\ Len(result.items) =
              Cardinality({n \in start_line..(end_line - 1) :
                              /\ start_line >= 0
                              /\ FirstItemPattern(text[n + 1]) > 0
                              /\ ItemConverts(ItemPattern(FirstItemPattern(text[n + 1]),
                                                          text[n + 1]).val)})

\* C7: for a text that passes the length check the totals map is the one the
\* totals patterns give on the whole text, whatever happened in the item
\* section.
C7_TotalsIndependentOfItems ==
    ReturnedLong =>
        /\ \A f \in TotalsSet :
              f \in DOMAIN result.totals <=>
                 (TotalsSearch(f, text).hit /\ ~AmountRaises(TotalsSearch(f, text).val))
        /\ \A f \in DOMAIN result.totals :
              result.totals[f] = AmountValue(TotalsSearch(f, text).val)

\* the points the score holds beyond those of the essential fields
PointsBeyondFields == validation_score - PresentEssentials

\* C8: after the cross-check step: if items is non-empty and totals.total is
\* present, the score gained one point when |sum(item.total) - totals.total|
\* <= 0.02, and otherwise no point and exactly one warning naming both
\* values; if not, neither a point nor a warning.
C8_CrossCheckPointOrWarning ==
    pc = "datecheck" =>
        LET evaluated == result.items # <<>> /\ "total" \in DOMAIN result.totals
            sum       == SumTotals(result.items)
            mismatch  == WarningsOfKind("Item total doesn't match invoice total")
        IN  IF evaluated
            THEN IF sum - result.totals["total"] \in -20..20
                 THEN PointsBeyondFields = 1 /\ mismatch = {}
                 ELSE /\ PointsBeyondFields = 0
                      /\ Cardinality(mismatch) = 1
                      /\ \A n \in mismatch :
                            Warnings[n].detail = <<sum, result.totals["total"]>>
            ELSE PointsBeyondFields = 0 /\ mismatch = {}

\* the warnings a step appended
Appended == SubSeq(result'.validation.warnings, Len(Warnings) + 1,
                   Len(result'.validation.warnings))

\* the formats that parse a date string
ParsingFormats(d) == {f \in 1..Len(DateFormats) : StrptimeOK(d, DateFormats[f])}

\* C9: the date check of a present metadata.date uses the first of the six
\* formats that parses, and has exactly one of three outcomes: one point and
\* no warning if now - 365 days <= parsed date <= now, a 'seems unusual'
\* warning and no point if the parsed date is outside, a "Couldn't parse
\* date" warning and no point if no format parses.
C9_DateCheckOutcomes ==
    [][pc = "datecheck" /\ "date" \in DOMAIN result.metadata =>
        LET d      == result.metadata["date"]
            gained == validation_score' - validation_score
        IN  IF ParsingFormats(d) = {}
            THEN /\ gained = 0
                 /\ Len(Appended) = 1
                 /\ Appended[1].w = "Couldn't parse date"
            ELSE LET f   == CHOOSE g \in ParsingFormats(d) :
                                \A h \in ParsingFormats(d) : g <= h
                     day == StrptimeDay(d, DateFormats[f])
                     \* midnight of `day` against the clock, in days and
                     \* time of day
                     notAfterNow  == day <= today'.day
                     notTooOld    == \/ day > today'.day - 365
                                     \/ day = today'.day - 365 /\ today'.tod = 0
                 IN  IF notAfterNow /\ notTooOld
                     THEN gained = 1 /\ Appended = <<>>
                     ELSE /\ gained = 0
                          /\ Len(Appended) = 1
                          /\ Appended[1].w = "Invoice date seems unusual"
     ]_vars

\* C9 witness: 12/01/2024 was read month first, as the first of December and
\* not as the twelfth of January, and found unusual on 2024-06-15
C9_Witness ==
    /\ pc = "aggregate"
    /\ "date" \in DOMAIN result.metadata
    /\ result.metadata["date"].a = <<"1", "2">>
    /\ result.metadata["date"].b = <<"0", "1">>
    /\ WarningsOfKind("Invoice date seems unusual") # {}

\* C10: overall_confidence = (validation_score / max_score) * vendor
\* confidence when max_score > 0 and vendor confidence * 0.5 when max_score
\* is 0; the field part of the score is one point for each of invoice_no,
\* date, total_amount in metadata, each awarded whatever the other two.
C10_ConfidenceFormula ==
    /\ ReturnedLong =>
          /\ max_score > 0
          /\ result.validation.overall_confidence.num * max_score * 100
                = validation_score * result.vendor.confidence
                  * result.validation.overall_confidence.den
    /\ \A s \in 0..5, c \in Confidences :
          OverallConfidence(s, 0, c).num * 200 = c * OverallConfidence(s, 0, c).den
    /\ pc = "crosscheck" => validation_score = PresentEssentials

\* C10 witness: a return with two of the three essential fields and a
\* score of 2 out of 4
C10_Witness ==
    /\ ReturnedLong
    /\ PresentEssentials = 2
    /\ validation_score = 2
    /\ max_score = 4
    /\ result.vendor.confidence = 95
    /\ result.validation.overall_confidence.num * 200
          = 95 * result.validation.overall_confidence.den


\* the lines of the text a pattern of a field matches
MatchedLines(field, p) ==
    {n \in 1..Len(text) : FieldPattern(field, p, text[n]).hit}

\* the least element of a non-empty set of line numbers
FirstOf(S) == CHOOSE n \in S : \A m \in S : n <= m

\* C11: for each metadata field the patterns are tried in list order on the
\* whole text; the first pattern that matches anywhere decides the field by
\* its first occurrence, a later pattern only when every earlier one matches
\* nowhere; a field no pattern matches is absent and causes no warning.
C11_FirstPatternThenFirstOccurrence ==
    /\ ReturnedLong =>
          \A f \in {"invoice_no", "date", "due_date", "po_number", "total_amount"} :
             LET p == IF MatchedLines(f, 1) # {} THEN 1 ELSE 2
             IN  IF MatchedLines(f, p) = {}
                 THEN f \notin DOMAIN result.metadata
                 ELSE /\ f \in DOMAIN result.metadata
                      /\ result.metadata[f] =
                            FieldValue(f, FieldPattern(f, p,
                                              text[FirstOf(MatchedLines(f, p))]).val)
    /\ pc = "table" /\ Warnings # <<>> =>
          MatchedLines("total_amount", 1) \cup MatchedLines("total_amount", 2) # {}

\* C11 witness: the invoice number is the one of the first pattern although
\* the second pattern matches on an earlier line, and po_number is absent
C11_Witness ==
    /\ ReturnedLong
    /\ MatchedLines("invoice_no", 1) # {}
    /\ MatchedLines("invoice_no", 2) # {}
    /\ FirstOf(MatchedLines("invoice_no", 2)) < FirstOf(MatchedLines("invoice_no", 1))
    /\ result.metadata["invoice_no"] = "INV123456"
    /\ "po_number" \notin DOMAIN result.metadata


\* C12: when a header line is found, start is the index of the line directly
\* after the first header line and end is the first line after the header
\* that matches the end signature, so that no line of [start, end) matches
\* the signature.
C12_RangeEndsAtFirstEndMarker ==
    pc \notin {"start", "check", "table"} /\ start_line >= 0 =>
        LET after == {n \in start_line..(Len(text) - 1) : EndMarkerMatch(text[n + 1])}
        IN  /\ HeaderMatch(text[start_line])
            /\ \A m \in 1..(start_line - 1) : ~HeaderMatch(text[m])
            /\ after # {} => end_line = FirstOf(after)
            /\ \A n \in start_line..(end_line - 1) : ~EndMarkerMatch(text[n + 1])


\* no line after the first line of the table matches the end signature
NoLaterEndMarker ==
    \A n \in (start_line + 1)..(Len(text) - 1) : ~EndMarkerMatch(text[n + 1])

\* C13: when a header is found and no later line matches the end signature,
\* end is start + 15, or the number of lines if that is smaller, so that at
\* most 15 lines are scanned and items has at most 15 entries.
C13_TableCappedAtFifteenLines ==
    pc \notin {"start", "check", "table"} /\ start_line >= 0 /\ NoLaterEndMarker =>
        /\ end_line = (IF start_line + 15 <= Len(text) THEN start_line + 15 ELSE Len(text))
        /\ end_line - start_line <= 15
        /\ i \in start_line..end_line
        /\ Len(result.items) <= 15

\* C13 witness: a return with 15 items of a table of more than 15 lines
C13_Witness ==
    /\ ReturnedLong
    /\ start_line >= 0
    /\ NoLaterEndMarker
    /\ Len(text) > start_line + 15
    /\ Len(result.items) = 15


\* the patterns of parse_invoice_text's cascade that match a line
MatchingPatterns(line) == {p \in 1..6 : ItemPattern(p, line).hit}

\* the patterns of extract_line_items that match a line
MatchingLinePatterns(line) == {p \in 1..3 : LineItemPattern(p, line).hit}

\* a step of an item loop appends at most one item, at the end of the list
AppendsAtMostOne ==
    /\ Len(result'.items) \in {Len(result.items), Len(result.items) + 1}
    /\ SubSeq(result'.items, 1, Len(result.items)) = result.items

\* the item a step appended
Appended_item == result'.items[Len(result'.items)]

\* C14: each non-empty line of [start, end) yields at most one item, the one
\* of the first cascade pattern that matches it, and items are appended in
\* line order; a line no pattern matches is left out of items, is reported
\* as a warning of the log, and the loop goes on to the next line or to the
\* totals.
C14_OneItemPerLineFirstMatchWins ==
    [][/\ pc = "items" =>
            LET line == text[i + 1]
            IN  /\ AppendsAtMostOne
                /\ Len(result'.items) = Len(result.items) + 1 =>
                      /\ line.k # "blank"
                      /\ MatchingPatterns(line) # {}
                      /\ LET groups == ItemPattern(FirstOf(MatchingPatterns(line)), line).val
                         IN  /\ Appended_item.description = Strip(groups[1])
                             /\ Appended_item.quantity = StrToNat(groups[2])
                      /\ i' = i + 1
                /\ line.k # "blank" /\ MatchingPatterns(line) = {} =>
                      /\ result' = result
                      /\ log' = Append(log, [level |-> "warning",
                                             msg |-> "Could not extract item from line"])
                      /\ i' = i + 1
                      /\ pc' = IF i + 1 < end_line THEN "items" ELSE "totals"
       /\ pc = "extract_line_items" /\ i < end_line =>
            LET line == text[i + 1]
            IN  /\ AppendsAtMostOne
                /\ i' = i + 1
                /\ pc' = pc
                /\ Len(result'.items) = Len(result.items) + 1 =>
                      /\ line.k # "blank"
                      /\ MatchingLinePatterns(line) # {}
                      /\ LET groups == LineItemPattern(FirstOf(MatchingLinePatterns(line)),
                                                       line).val
                         IN  /\ Appended_item.description = Strip(groups[1])
                             /\ Appended_item.quantity = StrToNat(groups[2])
                /\ line.k # "blank" /\ MatchingLinePatterns(line) = {} =>
                      /\ result' = result
                      /\ log' = Append(log, [level |-> "warning",
                                             msg |-> "Could not extract item from line"])
      ]_vars

\* C14 witness: a return of parse_invoice_text with an item from a line
\* after a line that no pattern matched, and with a total
C14_Witness ==
    /\ ReturnedLong
    /\ start_line >= 0
    /\ \E n \in start_line..(end_line - 1), m \in start_line..(end_line - 1) :
          /\ n < m
          /\ text[n + 1].k = "item" /\ MatchingPatterns(text[n + 1]) = {}
          /\ MatchingPatterns(text[m + 1]) # {}
    /\ result.items # <<>>
    /\ "total" \in DOMAIN result.totals
    /\ HasLogged("Could not extract item from line")


\* a price with its grouping commas removed first and a remaining comma
\* turned into the decimal point
Ungrouped(v) ==
    IF \E n \in 1..Len(v) : v[n] = "."
    THEN Replace(v, ",", <<>>)
    ELSE Replace(v, ",", <<".">>)

\* the step appends an item whose prices are the ungrouped readings of the
\* price groups
ReadsUngrouped(groups) ==
    FloatOK(Ungrouped(groups[3])) /\ FloatOK(Ungrouped(groups[4])) =>
        /\ Len(result'.items) = Len(result.items) + 1
        /\ Appended_item.unit_price = FloatMilli(Ungrouped(groups[3]))
        /\ Appended_item.total = FloatMilli(Ungrouped(groups[4]))

\* C15: the unit price and the total of an item are read with the grouping
\* commas stripped first and a remaining comma as the decimal point:
\* 1,050.00 is 1050.00 and 12,50 is 12.50.
C15_GroupingStrippedBeforeDecimalComma ==
    [][/\ pc = "items" /\ text[i + 1].k # "blank"
          /\ MatchingPatterns(text[i + 1]) # {} =>
             ReadsUngrouped(ItemPattern(FirstOf(MatchingPatterns(text[i + 1])),
                                        text[i + 1]).val)
       /\ pc = "extract_line_items" /\ i < end_line /\ text[i + 1].k # "blank"
          /\ MatchingLinePatterns(text[i + 1]) # {} =>
             ReadsUngrouped(LineItemPattern(FirstOf(MatchingLinePatterns(text[i + 1])),
                                            text[i + 1]).val)
      ]_vars


\* the canonical form of a value: '.' as the separator and no glyph
Canonical(d) == d.whole \o <<".">> \o d.frac

\* C16: for every decimal string with '.' or ',' as its decimal separator
\* and an optional currency glyph ($, €, £), parse_decimal returns the
\* number its canonical form, with '.' and no glyph, parses to.
C16_ParseDecimalEqualsCanonical ==
    pc = "returned" /\ text[1].k = "decimal" =>
        result.value = Hit(FloatMilli(Canonical(text[1])))


\* C17: every line item emitted by parse_invoice_text or extract_line_items
\* has a quantity that is a positive integer (>= 1), a non-negative
\* unit_price and a non-negative total.
C17_QuantityPositivePricesNonNegative ==
    pc \in {"done", "returned"} /\ "items" \in DOMAIN result =>
        \A n \in 1..Len(result.items) :
            /\ result.items[n].quantity \in Nat
            /\ result.items[n].quantity >= 1
            /\ result.items[n].unit_price >= 0
            /\ result.items[n].total >= 0


\* the discrepancy warnings a step of extract_line_items logs
NewDiscrepancyWarnings ==
    Cardinality({n \in (Len(log) + 1)..Len(log') :
                    log'[n].msg = "Possible price calculation discrepancy"})

\* C18: for every item extract_line_items emits, no calculation-discrepancy
\* warning is logged when round(quantity * unit_price, 2) is within 0.02 of
\* the total and exactly one is logged otherwise; the item is kept in both
\* cases.
C18_DiscrepancyWarningIffBeyondTolerance ==
    [][pc = "extract_line_items" /\ i < end_line
       /\ GivingPattern(text[i + 1]) > 0 =>
          /\ Len(result'.items) = Len(result.items) + 1
          /\ NewDiscrepancyWarnings =
                IF Abs(Appended_item.quantity * Appended_item.unit_price
                       - Appended_item.total) <= Tolerance
                THEN 0 ELSE 1
      ]_vars


\* captures that float() does not take even with their commas removed
UnconvertibleCaptures == {<<"1", ".", "2", ".", "3">>, <<",", ".">>, <<",">>}

\* C19: whenever a total_amount pattern matches, metadata.total_amount is
\* present: it is the float of the matched text with its thousands
\* separators removed, and it counts as a present essential field; a text
\* that float() does not take is stored as 0.0 with one warning instead of
\* being left out.
C19_TotalAmountAlwaysStored ==
    /\ (ReturnedLong \/ (InsideTheCall /\ pc \notin {"start", "check"})) =>
        /\ FieldMatch("total_amount", text).hit =>
              /\ "total_amount" \in DOMAIN result.metadata
              /\ FloatOK(Replace(FieldMatch("total_amount", text).val, ",", <<>>))
              /\ result.metadata.total_amount =
                    FloatMilli(Replace(FieldMatch("total_amount", text).val, ",", <<>>))
              /\ WarningsOfKind("Could not convert total amount") = {}
              /\ Returned => validation_score >= 1
        /\ "total_amount" \in DOMAIN result.metadata =>
              FieldMatch("total_amount", text).hit
    /\ \A v \in UnconvertibleCaptures : FieldValue("total_amount", v) = 0

\* C19 witness: a return for a text whose total is written with a thousands
\* separator, stored as 1050.00
C19_Witness ==
    /\ ReturnedLong
    /\ FieldMatch("total_amount", text).hit
    /\ \E n \in 1..Len(FieldMatch("total_amount", text).val) :
          FieldMatch("total_amount", text).val[n] = ","
    /\ result.metadata.total_amount = 1050000


\* the warnings that a totals field did not convert
ConvertWarningsOf(field) ==
    {n \in 1..Len(Warnings) :
        Warnings[n].w = "Could not convert" /\ Warnings[n].detail = field}

\* what the totals loop leaves for the fields whose pattern matches
TotalsAsMatched ==
    \A f \in TotalsSet :
        LET m == TotalsSearch(f, text)
        IN  /\ m.hit /\ FloatOK(Replace(m.val, ",", <<>>)) =>
                /\ f \in DOMAIN result.totals
                /\ result.totals[f] = FloatMilli(Replace(m.val, ",", <<>>))
                /\ ConvertWarningsOf(f) = {}
            /\ m.hit /\ ~FloatOK(Replace(m.val, ",", <<>>)) =>
                /\ f \notin DOMAIN result.totals
                /\ Cardinality(ConvertWarningsOf(f)) = 1

\* C20: for each totals field (subtotal, tax, shipping, discount, total)
\* whose pattern matches, the matched text is parsed as a float with its
\* commas removed; when that fails exactly one warning is appended, the
\* field is absent from totals, and the other totals fields are still
\* extracted.
C20_TotalsParsedOrWarned == ReturnedLong => TotalsAsMatched


\* a decimal written as digits, a point and digits
PlainDecimal(s) ==
    /\ FloatOK(s)
    /\ \E n \in 2..(Len(s) - 1) : s[n] = "."

\* a line of the form <description> <integer> <decimal> <decimal>
PlainItemLine(line) ==
    /\ line.k = "item"
    /\ line.sepw = 1
    /\ line.glyph = ""
    /\ PlainDecimal(line.price)
    /\ PlainDecimal(line.total)

\* labelled invoice number, date and due date lines, then a header, then
\* item lines of that form or empty lines up to a totals line
LabelledTextWithTable ==
    \E n, d, u, h, t \in 1..Len(text) :
        /\ n < h /\ d < h /\ u < h /\ h < t
        /\ text[n] = Field("Invoice No", "INV123456")
        /\ text[d].k = "date" /\ text[d].label = "Date"
        /\ text[u].k = "date" /\ text[u].label = "Due Date"
        /\ \A m \in 1..(h - 1) : text[m].k \in {"blank", "junk", "field", "date"}
        /\ text[h].k = "header"
        /\ text[t].k = "amount"
        /\ \A m \in (h + 1)..(t - 1) : text[m].k = "blank" \/ PlainItemLine(text[m])

RECURSIVE ColumnsOfItemLines(_)
\* the four columns of each item line, in the order of the lines
ColumnsOfItemLines(lines) ==
    IF lines = <<>> THEN <<>>
    ELSE (IF Head(lines).k = "item"
          THEN <<[description |-> Head(lines).desc,
                  quantity    |-> StrToNat(Head(lines).qty),
                  unit_price  |-> FloatMilli(Head(lines).price),
                  total       |-> FloatMilli(Head(lines).total)]>>
          ELSE <<>>)
         \o ColumnsOfItemLines(Tail(lines))

\* C23: for a text with labelled invoice number, date and due date lines, a
\* table header, one line '<description> <integer> <decimal> <decimal>' per
\* item and then a totals line, the result holds the labelled values in
\* metadata and exactly one item per item line, in order, made of the four
\* columns of the line.
C23_LabelledValuesAndOneItemPerLine ==
    ReturnedLong /\ LabelledTextWithTable =>
        /\ result.metadata.invoice_no = "INV123456"
        /\ \E d \in 1..Len(text) :
              /\ text[d].k = "date" /\ text[d].label = "Date"
              /\ result.metadata.date = text[d].d
        /\ \E u \in 1..Len(text) :
              /\ text[u].k = "date" /\ text[u].label = "Due Date"
              /\ result.metadata.due_date = text[u].d
        /\ result.items = ColumnsOfItemLines(text)


\* the lines of the text where the pattern of a totals field matches
TotalsOccurrences(field) ==
    {n \in 1..Len(text) : TotalsPattern(field, text[n]).hit}

\* C24: each totals field is the number that follows the first occurrence,
\* in any case, of its label anywhere in the text, and the label 'Total' of
\* totals.total also matches inside 'Subtotal': for the totals block
\* 'Subtotal: 1145.00', 'Tax: 50.00', 'Total Amount: 1195.00' the result is
\* subtotal 1145.0, tax 50.0 and total 1145.0.
C24_TotalsFromFirstOccurrence ==
    /\ (ReturnedLong \/ (InsideTheCall /\ pc \in {"validate", "crosscheck",
                                                   "datecheck", "aggregate"})) =>
          /\ \A f \in DOMAIN result.totals :
                /\ TotalsOccurrences(f) # {}
                /\ result.totals[f] =
                      FloatMilli(Replace(TotalsPattern(f,
                          text[FirstOf(TotalsOccurrences(f))]).val, ",", <<>>))
          /\ WarningsOfKind("Error extracting items") = {} =>
                \A f \in TotalsSet :
                    (/\ TotalsOccurrences(f) # {}
                     /\ FloatOK(Replace(TotalsPattern(f,
                            text[FirstOf(TotalsOccurrences(f))]).val, ",", <<>>)))
                    => f \in DOMAIN result.totals
    /\ ReturnedLong /\ text \in SampleTexts =>
          result.totals = [subtotal |-> 1145000, tax |-> 50000, total |-> 1145000]

\* C24 witness: the sample text of the tests, its tax label in capitals, is
\* returned with the subtotal as totals.total although a later line reads
\* 'Total Amount: 1195.00'
C24_Witness ==
    /\ ReturnedLong
    /\ text = SampleText(SampleItems, "TAX")
    /\ result.totals.total = 1145000
    /\ result.totals.tax = 50000
    /\ \E n \in 1..Len(text) :
          /\ text[n].k = "amount" /\ text[n].label = "Total Amount"
          /\ FirstOf(TotalsOccurrences("total")) < n


\* C26: whenever the status returned for a vendor confidence in [0,1] is
\* Auto-Approved, the three essential fields invoice_no, date and
\* total_amount are all present in metadata; a record without an invoice
\* number is never Auto-Approved.
C26_AutoApprovedHasEssentials ==
    (/\ ReturnedLong
     /\ confidence \in 0..100
     /\ result.validation.status = "Auto-Approved") =>
        essential_fields \subseteq DOMAIN result.metadata


MonthNames ==
    <<"January", "February", "March", "April", "May", "June", "July", "August",
      "September", "October", "November", "December">>

\* the year a date is written with: a year of two digits is one of this
\* century
WrittenYear(d) == IF Len(d.y) = 2 THEN 2000 + StrToNat(d.y) ELSE StrToNat(d.y)

\* a stored date string denotes a day of the calendar: with a month name, or
\* with numbers read as month and day in one of the two orders
RealCalendarDate(d) ==
    IF d.form = "named"
    THEN \E m \in 1..12 :
            /\ d.mon = MonthNames[m]
            /\ StrToNat(d.a) \in 1..DaysInMonth(WrittenYear(d), m)
    ELSE \/ /\ StrToNat(d.a) \in 1..12
            /\ StrToNat(d.b) \in 1..DaysInMonth(WrittenYear(d), StrToNat(d.a))
         \/ /\ StrToNat(d.b) \in 1..12
            /\ StrToNat(d.a) \in 1..DaysInMonth(WrittenYear(d), StrToNat(d.b))

\* C28: every date string the field extractor can store in metadata.date
\* that denotes a real calendar date is parsed by at least one of the six
\* date formats of the validator, so the "Couldn't parse date" warning is
\* raised only for impossible dates.
C28_RealDatesParse ==
    (/\ ReturnedLong
     /\ "date" \in DOMAIN result.metadata
     /\ RealCalendarDate(result.metadata.date)) =>
        /\ ParsingFormats(result.metadata.date) # {}
        /\ WarningsOfKind("Couldn't parse date") = {}


\* df 'amount' of save_to_database: metadata.get('total_amount',
\* totals.get('total', 0))
PersistedAmount ==
    IF "total_amount" \in DOMAIN result.metadata THEN result.metadata.total_amount
    ELSE IF "total" \in DOMAIN result.totals THEN result.totals.total
    ELSE 0

\* C29: whenever parse_invoice_text extracts both metadata.total_amount and
\* totals.total from a text, they hold the same value, so the amount that
\* save_to_database persists is the amount of the items-vs-total
\* cross-check.
C29_TotalAmountEqualsTotalsTotal ==
    (/\ ReturnedLong
     /\ "total_amount" \in DOMAIN result.metadata
     /\ "total" \in DOMAIN result.totals) =>
        /\ result.metadata.total_amount = result.totals.total
        /\ PersistedAmount = result.totals.total


\* C30: whenever a table header is found, 0 <= start <= end <= number of
\* lines holds before the item loop, also when the header is the last line
\* or the end marker is the line right after start; the loop never reads a
\* line index outside the text.
C30_ItemRangeInsideText ==
    /\ (pc \notin {"start", "check", "table", "extract_line_items", "parse_decimal",
                   "float", "returned"} /\ start_line >= 0) =>
          /\ 0 <= start_line
          /\ start_line <= end_line
          /\ end_line <= Len(text)
    /\ pc = "items" =>
          /\ start_line <= i
          /\ i < end_line
          /\ i + 1 \in DOMAIN text

\* C30 witness: the header is the last line of the text, and the range is
\* empty at the end of the text
C30_Witness ==
    /\ ReturnedLong
    /\ HeaderMatch(text[Len(text)])
    /\ start_line = Len(text)
    /\ end_line = Len(text)


\* the calls of the session that have returned, the running one included
Finished ==
    DOMAIN calls.returned \cup (IF pc = "done" THEN {calls.current} ELSE {})

OutcomeOf(c) == IF c \in DOMAIN calls.returned THEN calls.returned[c] ELSE Outcome

\* the call reads the wall clock: it has a date that one of the formats
\* parses
ReadsClock(lines) ==
    /\ ~TooShort(lines)
    /\ FieldMatch("date", lines).hit
    /\ FirstFormat(FieldMatch("date", lines).val) # 0

\* the same text, the same answer of the vendor resolver and the same 'now'
SameInputs(a, b) ==
    /\ a.text = b.text
    /\ a.result.vendor = b.result.vendor
    /\ ReadsClock(a.text) => a.today = b.today

\* two finished calls with the same inputs have returned identical records
SameInputsSameRecord ==
    \A a \in Finished, b \in Finished :
        SameInputs(OutcomeOf(a), OutcomeOf(b)) =>
            OutcomeOf(a).result = OutcomeOf(b).result

\* C21: parsing is deterministic and keeps no state between calls: two
\* calls with the same text, the same vendor resolver answer and the same
\* 'now' return identical records, whatever other texts were parsed in
\* between.
C21_SameInputsSameRecord == ~calls.overlap => SameInputsSameRecord

\* C21 witness: the first call and the third one have the same inputs and
\* returned the same record with an item in it, and a call with another text
\* ran between them
C21_Witness ==
    /\ ~calls.overlap
    /\ calls.order = <<1, 3>>
    /\ calls.current = 2
    /\ pc = "done"
    /\ SameInputs(OutcomeOf(1), OutcomeOf(2))
    /\ OutcomeOf(3).text # OutcomeOf(1).text
    /\ ~TooShort(OutcomeOf(3).text)
    /\ OutcomeOf(1).result = OutcomeOf(2).result
    /\ Len(result.items) = 1

\* C22: two calls running concurrently on different texts share no mutable
\* state: under every interleaving each returns the record it returns when
\* run alone, and neither modifies the vendor registry it reads.
C22_InterleavedCallsAsAlone ==
    /\ calls.overlap => SameInputsSameRecord
    /\ VENDOR_DATABASE = VendorNames

\* C22 witness: the second and third call ran interleaved, each suspended
\* in the middle of its work, and the second returned what the first, run
\* alone on the same inputs, had returned
C22_Witness ==
    /\ calls.overlap
    /\ Finished = {1, 2, 3}
    /\ SameInputs(OutcomeOf(1), OutcomeOf(2))
    /\ OutcomeOf(1).result = OutcomeOf(2).result
    /\ OutcomeOf(3).text # OutcomeOf(2).text
    /\ Len(OutcomeOf(2).result.items) = 1
    /\ ~TooShort(OutcomeOf(3).text)
    /\ OutcomeOf(3).result # OutcomeOf(2).result


-----------------------------------------------------------------------------
(* save_to_database: the CSV file at DATABASE_PATH and the calls that read,
   change and rewrite it.  In this part an invoice id is a sequence of
   characters, because pandas decides the type of the invoice_id column from
   the characters it reads. *)

\* the number of save_to_database calls of a session
MaxSaves == 3

\* the calls that are inside save_to_database at one time
MaxRunning == 2

RECURSIVE NatToStr(_)
\* str(n) of a non-negative integer
NatToStr(n) ==
    IF n < 10 THEN <<DigitChars[n + 1]>>
    ELSE NatToStr(n \div 10) \o <<DigitChars[(n % 10) + 1]>>

\* the text holds an integer for the CSV parser
IntegerText(s) == s # <<>> /\ \A n \in 1..Len(s) : s[n] \in Digits

\* invoice numbers as parse_invoice_text stores them
SavedInvoiceNumbers ==
    {<<"I", "N", "V", "1">>, <<"1", "2", "3">>, <<"0", "7">>}

\* the records handed to save_to_database: with or without an invoice_no,
\* and one dictionary without the key 'metadata'
InvoiceData ==
    {[metadata |-> Put(Put(EmptyMap, "invoice_no", n), "total_amount", a)] :
        n \in SavedInvoiceNumbers, a \in {50000, 1050000}}
    \cup {[metadata |-> Put(EmptyMap, "total_amount", 50000)]}
    \cup {[error |-> "no metadata"]}

\* invoice_data['metadata'].get('invoice_no', 'Unknown')
InvoiceIdOf(invoice_data) ==
    IF "invoice_no" \in DOMAIN invoice_data.metadata
    THEN invoice_data.metadata["invoice_no"]
    ELSE <<"U", "n", "k", "n", "o", "w", "n">>

\* a cell of the invoice_id column in memory: a Python str, or a number that
\* prints as `repr`
StrCell(s) == [py |-> "str", repr |-> s]

IntCell(n) == [py |-> "int", repr |-> NatToStr(n)]

\* the file at DATABASE_PATH with a header line and these rows
CsvFile(rows) == [exists |-> TRUE, rows |-> rows]

\* pd.read_csv: a column whose every field is an integer becomes int64,
\* any other column keeps the strings
ReadCsv(file) ==
    LET rows == file.rows
    IN  IF rows # <<>> /\ \A n \in 1..Len(rows) : IntegerText(rows[n].invoice_id)
        THEN [n \in 1..Len(rows) |->
                [rows[n] EXCEPT !.invoice_id = IntCell(StrToNat(rows[n].invoice_id))]]
        ELSE [n \in 1..Len(rows) |->
                [rows[n] EXCEPT !.invoice_id = StrCell(rows[n].invoice_id)]]

\* df.to_csv: every cell as str() prints it
ToCsv(df) ==
    CsvFile([n \in 1..Len(df) |->
                [df[n] EXCEPT !.invoice_id = df[n].invoice_id.repr]])

\* the rows where df['invoice_id'] == invoice_id: a str equals no number
RowsOf(df, invoice_id) ==
    {n \in 1..Len(df) : df[n].invoice_id = StrCell(invoice_id)}

\* lines 63-97: update the first row of the id, or append a new record
Upsert(df, invoice_data) ==
    LET invoice_id == InvoiceIdOf(invoice_data)
        amount     == invoice_data.metadata["total_amount"]
        idx        == CHOOSE n \in RowsOf(df, invoice_id) :
                         \A m \in RowsOf(df, invoice_id) : n <= m
    IN  IF RowsOf(df, invoice_id) # {}
        THEN [df EXCEPT ![idx].amount = amount]
        ELSE Append(df, [invoice_id |-> StrCell(invoice_id), amount |-> amount])

\* a call that has not been made
Idle == [pc |-> "idle", invoice_data |-> [error |-> ""], df |-> <<>>, ret |-> ""]

Running == {c \in 1..MaxSaves : calls.frames[c].pc \notin {"idle", "done"}}

InitDatabase ==
    /\ calls = [frames |-> [c \in 1..MaxSaves |-> Idle], overlap |-> FALSE]
    /\ database = NoFile
    /\ text = <<>>
    /\ today = [day |-> 0, tod |-> 0]
    /\ pc = "done"
    /\ confidence = 0
    /\ result = NoResult
    /\ start_line = -1
    /\ end_line = -1
    /\ i = 0
    /\ validation_score = 0
    /\ max_score = 0
    /\ log = <<>>
    /\ VENDOR_DATABASE = VendorNames

OutsideTheSave ==
    <<text, today, pc, confidence, result, start_line, end_line, i,
      validation_score, max_score, log, VENDOR_DATABASE>>

\* save_to_database(invoice_data, pdf_path) is called
Save(c) ==
    /\ calls.frames[c].pc = "idle"
    /\ \A b \in 1..(c - 1) : calls.frames[b].pc # "idle"
    /\ Cardinality(Running) < MaxRunning
    /\ \E d \in InvoiceData :
          calls' = [calls EXCEPT !.frames[c].pc = "exists",
                                 !.frames[c].invoice_data = d,
                                 !.overlap = @ \/ Running # {}]
    /\ UNCHANGED <<OutsideTheSave, database>>

\* if not os.path.exists(DATABASE_PATH), line 54
CheckExists(c) ==
    /\ calls.frames[c].pc = "exists"
    /\ calls' = [calls EXCEPT !.frames[c].pc =
                    IF database = NoFile THEN "initialize" ELSE "read"]
    /\ UNCHANGED <<OutsideTheSave, database>>

\* initialize_database(): the second test of the path, line 24
InitializeDatabase(c) ==
    /\ calls.frames[c].pc = "initialize"
    /\ calls' = [calls EXCEPT !.frames[c].pc =
                    IF database = NoFile THEN "create" ELSE "read"]
    /\ UNCHANGED <<OutsideTheSave, database>>

\* initialize_database(): the empty frame written to the path, lines 27-30
CreateDatabase(c) ==
    /\ calls.frames[c].pc = "create"
    /\ database' = CsvFile(<<>>)
    /\ calls' = [calls EXCEPT !.frames[c].pc = "read"]
    /\ UNCHANGED OutsideTheSave

\* df = pd.read_csv(DATABASE_PATH), line 59
ReadDatabase(c) ==
    /\ calls.frames[c].pc = "read"
    /\ calls' = [calls EXCEPT !.frames[c].pc = "modify",
                              !.frames[c].df = ReadCsv(database)]
    /\ UNCHANGED <<OutsideTheSave, database>>

\* lines 63-97 on the call's own frame
ModifyFrame(c) ==
    /\ calls.frames[c].pc = "modify"
    /\ "metadata" \in DOMAIN calls.frames[c].invoice_data
    /\ calls' = [calls EXCEPT !.frames[c].pc = "write",
                              !.frames[c].df = Upsert(@, calls.frames[c].invoice_data)]
    /\ UNCHANGED <<OutsideTheSave, database>>

\* invoice_data['metadata'] raises KeyError: the except branch, lines 103-105
SaveFails(c) ==
    /\ calls.frames[c].pc = "modify"
    /\ "metadata" \notin DOMAIN calls.frames[c].invoice_data
    /\ calls' = [calls EXCEPT !.frames[c].pc = "done",
                              !.frames[c].ret = "False"]
    /\ log' = Append(log, Logged("error", "Error saving to database"))
    /\ UNCHANGED <<text, today, pc, confidence, result, start_line, end_line, i,
                   validation_score, max_score, VENDOR_DATABASE, database>>

\* df.to_csv(DATABASE_PATH, index=False) and return True, lines 100-102
WriteDatabase(c) ==
    /\ calls.frames[c].pc = "write"
    /\ database' = ToCsv(calls.frames[c].df)
    /\ calls' = [calls EXCEPT !.frames[c].pc = "done",
                              !.frames[c].ret = "True"]
    /\ UNCHANGED OutsideTheSave

NextDatabase ==
    \E c \in 1..MaxSaves :
        \/ Save(c)
        \/ CheckExists(c)
        \/ InitializeDatabase(c)
        \/ CreateDatabase(c)
        \/ ReadDatabase(c)
        \/ ModifyFrame(c)
        \/ SaveFails(c)
        \/ WriteDatabase(c)

SpecDatabase == InitDatabase /\ [][NextDatabase]_vars


\* the invoice ids of the records in the file
StoredIds == {database.rows[n].invoice_id : n \in 1..Len(database.rows)}

\* no two records of the file have the same invoice id
OneRecordPerId ==
    \A n \in 1..Len(database.rows), m \in 1..Len(database.rows) :
        database.rows[n].invoice_id = database.rows[m].invoice_id => n = m

\* call c writes the file and returns True
Writes(c) ==
    /\ calls.frames[c].pc = "write"
    /\ calls'.frames[c].pc = "done"

\* C25: save_to_database upserts by invoice id ('Unknown' when absent): from
\* an empty database, after any sequence of successful saves there is at
\* most one record per invoice id, and saving an id that is already stored,
\* an id made only of digits included, updates the record in place and
\* leaves the number of records unchanged.
C25_UpsertByInvoiceId ==
    [][~calls'.overlap =>
          /\ OneRecordPerId'
          /\ \A c \in 1..MaxSaves :
                (/\ Writes(c)
                 /\ InvoiceIdOf(calls.frames[c].invoice_data) \in StoredIds)
                    => Len(database'.rows) = Len(database.rows)]_vars

\* C27: two save_to_database calls for different invoice ids that run
\* concurrently and both return True leave both records in the database
\* under every interleaving; no successful save is lost.
C27_NoSuccessfulSaveLost ==
    \A a \in 1..MaxSaves, b \in 1..MaxSaves :
        (/\ calls.overlap
         /\ \A c \in 1..MaxSaves \ {a, b} : calls.frames[c].pc = "idle"
         /\ calls.frames[a].ret = "True"
         /\ calls.frames[b].ret = "True"
         /\ InvoiceIdOf(calls.frames[a].invoice_data)
               # InvoiceIdOf(calls.frames[b].invoice_data))
            => {InvoiceIdOf(calls.frames[a].invoice_data),
                InvoiceIdOf(calls.frames[b].invoice_data)} \subseteq StoredIds

====
